---- MODULE Spec2Model ----
(***************************************************************************)
(* Parakeet: the agent loop (core/agent.py), the delegated specialist     *)
(* loop and the orchestrator loop (core/multi_agent.py), the tool         *)
(* classification tables (core/tools.py) and the session store            *)
(* (core/session.py).                                                     *)
(*                                                                         *)
(* Text (a Python str) is a sequence of one-character strings, so that    *)
(* strip(), upper(), lower(), startswith() and "in" are computed the way   *)
(* Python computes them.  Prompts and payloads that the code never        *)
(* inspects are abbreviated to a few characters.                          *)
(***************************************************************************)
EXTENDS Integers, Sequences, FiniteSets, TLC

\* ------------------------------------------------------------------ bounds
\* stream_response invocations explored over the whole behaviour
MaxTurns == 3
\* content fragments and tool calls the backend emits over the whole behaviour
MaxEmitted == 3

\* ------------------------------------------------------- session.py constant
MAX_MESSAGES == 100

\* ------------------------------------------------------------ text helpers
WHITESPACE == {" "}
LOWER == <<"a","b","c","d","e","f","g","h","i","j","k","l","m",
           "n","o","p","q","r","s","t","u","v","w","x","y","z">>
UPPER == <<"A","B","C","D","E","F","G","H","I","J","K","L","M",
           "N","O","P","Q","R","S","T","U","V","W","X","Y","Z">>

upper_char(c) ==
    IF \E k \in 1..26 : LOWER[k] = c
    THEN UPPER[CHOOSE k \in 1..26 : LOWER[k] = c] ELSE c

lower_char(c) ==
    IF \E k \in 1..26 : UPPER[k] = c
    THEN LOWER[CHOOSE k \in 1..26 : UPPER[k] = c] ELSE c

\* str.upper() / str.lower()
upper(s) == [k \in 1..Len(s) |-> upper_char(s[k])]
lower(s) == [k \in 1..Len(s) |-> lower_char(s[k])]

\* str.strip(): drop leading and trailing whitespace
strip(s) ==
    LET keep == {k \in 1..Len(s) : s[k] \notin WHITESPACE}
    IN  IF keep = {} THEN <<>>
        ELSE LET lo == CHOOSE k \in keep : \A j \in keep : k <= j
                 hi == CHOOSE k \in keep : \A j \in keep : k >= j
             IN  SubSeq(s, lo, hi)

\* str.startswith(prefix)
startswith(s, prefix) ==
    /\ Len(s) >= Len(prefix)
    /\ SubSeq(s, 1, Len(prefix)) = prefix

\* sub in s
contains(s, sub) ==
    \E k \in 1..(Len(s) - Len(sub) + 1) : SubSeq(s, k, k + Len(sub) - 1) = sub

\* ------------------------------------------------------- tools.py tables
TOOL_REGISTRY ==
    {"propose_plan_tool", "read_file_tool", "list_files_tool", "edit_file_tool",
     "run_bash_tool", "manage_shell_session_tool", "run_python_tool",
     "search_code_tool", "sqlite_tool", "create_venv_tool", "install_deps_tool",
     "git_tool", "smart_commit_tool", "kegg_tool", "pdb_tool", "uniprot_tool",
     "ncbi_tool", "ontology_tool", "blast_tool", "analyze_pathway_tool",
     "compare_organisms_tool", "find_alternatives_tool"}

DANGEROUS_TOOLS ==
    {"run_bash_tool", "run_python_tool", "install_deps_tool", "smart_commit_tool"}

\* the keys of the CONDITIONAL_TOOLS dict; its values are the two predicates below
CONDITIONAL_TOOLS == {"sqlite_tool", "git_tool"}

write_keywords ==
    { <<"I","N","S","E","R","T">>, <<"U","P","D","A","T","E">>,
      <<"D","E","L","E","T","E">>, <<"D","R","O","P">>,
      <<"C","R","E","A","T","E">>, <<"A","L","T","E","R">>,
      <<"R","E","P","L","A","C","E">>, <<"T","R","U","N","C","A","T","E">> }

is_sqlite_write_query(query) ==
    LET query_upper == upper(strip(query))
    IN  \E kw \in write_keywords : startswith(query_upper, kw)

safe_actions == {"status", "log", "diff", "branch", "remote"}

\* an allowlist that also lets stash and a missing action through
is_git_dangerous_action_wider(action) == action \notin safe_actions \cup {"stash", ""}

is_git_dangerous_action(action) == action \notin safe_actions

\* ------------------------------------------------------------- data model
\* Optional[...] values
None == [none |-> TRUE]
Some(v) == [none |-> FALSE, value |-> v]

\* dict.get(key, default)
get(d, key, default) == IF key \in DOMAIN d THEN d[key] ELSE default

\* a tool call as the backend delivers it: tool_call.function.name / .arguments
ToolCall(name, arguments) == [function |-> [name |-> name, arguments |-> arguments]]

\* json.dumps(result): the result dict rendered as text
json_dumps(result) == <<"{">> \o result \o <<"}">>

SYSTEM_PROMPT == <<"S">>
ORCHESTRATOR_PROMPT == <<"O">>
USER_INPUT == <<"u">>
TASK == <<"t">>

\* build_system_prompt() with no project context file
build_system_prompt == SYSTEM_PROMPT

\* MultiAgentCoordinator.agents: the four specialists and the orchestrator itself
AGENTS == {"coding", "research", "testing", "bioinformatics", "orchestrator"}

\* Agent.system_prompt of each agent
agent_system_prompt(a) == <<"P", a>>

\* ------------------------------------------------------------ session.py
\* create_session_id(): the wall-clock time of this launch, as an id
create_session_id == "now"

\* trim_conversation(conversation, max_messages)
trim_conversation(conv, max_messages) ==
    IF Len(conv) <= max_messages THEN conv
    ELSE LET system_prompt ==
                 IF Len(conv) > 0 /\ conv[1].role = "system" THEN <<conv[1]>> ELSE <<>>
             n == max_messages - Len(system_prompt)
             \* conversation[-n:] ; -0 is 0, so n = 0 keeps the whole list
             recent_messages ==
                 IF n = 0 THEN conv
                 ELSE IF n > 0 THEN SubSeq(conv, IF Len(conv) - n + 1 < 1 THEN 1
                                                  ELSE Len(conv) - n + 1, Len(conv))
                 ELSE SubSeq(conv, IF 1 - n > Len(conv) THEN Len(conv) + 1 ELSE 1 - n,
                             Len(conv))
         IN  system_prompt \o recent_messages

\* the record save_session writes to the session file
session_data(id, conv) ==
    [session_id |-> id, created_at |-> "now", messages |-> conv]

\* a file whose content is no session record: text that is not JSON
\* (json.load raises JSONDecodeError), JSON that is a list and not an object
\* (session_data.get raises AttributeError), a file open() cannot read
\* (PermissionError)
MALFORMED == [corrupt |-> "malformed"]
NOT_A_RECORD == [corrupt |-> "not_a_record"]
UNREADABLE == [corrupt |-> "unreadable"]

\* an exception leaving a function
Raise(e) == [raise |-> e]
raised(x) == "raise" \in DOMAIN x

\* load_session(session_id) against the session directory `files`;
\* "except (json.JSONDecodeError, KeyError): return None"
load_session(files, id) ==
    IF id \notin DOMAIN files THEN None
    ELSE IF "corrupt" \in DOMAIN files[id]
    THEN IF files[id].corrupt = "malformed" THEN None
         ELSE IF files[id].corrupt = "not_a_record" THEN Raise("AttributeError")
         ELSE Raise("PermissionError")
    ELSE Some(get(files[id], "messages", <<>>))

\* get_current_session_id() against the pointer file `pointer`: None when the
\* file does not exist or cannot be read ("except Exception"), else its text
\* (session ids are strftime timestamps, which strip() leaves as they are)
get_current_session_id(pointer) ==
    IF "corrupt" \in DOMAIN pointer THEN None ELSE pointer

\* load_last_session()
load_last_session(files, pointer) ==
    LET sid == get_current_session_id(pointer)
    IN  IF sid.none THEN None
        ELSE LET loaded == load_session(files, sid.value)
             IN  IF raised(loaded) THEN loaded
                 ELSE IF loaded.none \/ loaded.value = <<>> THEN None
                 ELSE Some([session_id |-> sid.value, conversation |-> loaded.value])

\* ------------------------------------------- what the backend may request
cmd_ls == <<"l","s">>
cmd_sudo == <<"s","u","d","o"," ","l","s">>
SUDO_PASSWORD == <<"p","w">>

q_select == <<"S","E","L","E","C","T"," ","1">>
q_select_ws == <<" "," ","s","e","l","e","c","t"," ","1">>
q_pragma == <<"p","r","a","g","m","a"," ","x">>
q_delete == <<"D","E","L","E","T","E"," ","F","R","O","M"," ","t">>
q_insert_ws == <<" "," ","i","n","s","e","r","t"," ","i","n","t","o"," ","t">>
q_drop == <<"D","r","o","p"," ","t","a","b","l","e"," ","t">>
q_with_delete ==
    <<"W","I","T","H"," ","c"," ","A","S"," ","(","S","E","L","E","C","T"," ","1",")",
      " ","D","E","L","E","T","E"," ","F","R","O","M"," ","t">>

\* what SQLite does with each query text above once sqlite_tool executes and
\* commits it: does the statement change the database?
SqlQueries ==
    { [text |-> q_select, writes |-> FALSE], [text |-> q_select_ws, writes |-> FALSE],
      [text |-> q_pragma, writes |-> FALSE], [text |-> q_delete, writes |-> TRUE],
      [text |-> q_insert_ws, writes |-> TRUE], [text |-> q_drop, writes |-> TRUE],
      [text |-> q_with_delete, writes |-> TRUE] }

GitActions ==
    {"status", "log", "diff", "branch", "remote", "add", "commit", "push", "pull",
     "checkout", "stash", "merge", "reset", "frobnicate"}

PoolCore ==
    { ToolCall("read_file_tool", [path |-> <<"f">>]),
      ToolCall("run_bash_tool", [command |-> cmd_ls]),
      ToolCall("no_such_tool", [path |-> <<"f">>]) }

DangerousCalls ==
    { ToolCall("run_bash_tool", [command |-> cmd_sudo]),
      ToolCall("run_python_tool", [code |-> <<"x">>]),
      ToolCall("install_deps_tool", [path |-> <<".">>]),
      ToolCall("smart_commit_tool", [custom_message |-> <<"m">>]) }

SqliteCalls ==
    { ToolCall("sqlite_tool", [database |-> <<"d">>, query |-> q.text]) : q \in SqlQueries }

\* every action of git_tool's docstring, an unknown action, and no action at all
GitCalls ==
    { ToolCall("git_tool", [action |-> a]) : a \in GitActions }
    \cup { ToolCall("git_tool", [cwd |-> <<".">>]) }

\* the orchestrator's requests: its two meta-tools, a known and an unknown agent
PoolOrchestrator ==
    { ToolCall("delegate_task_tool", [agent |-> "coding", task |-> TASK]),
      ToolCall("delegate_task_tool", [agent |-> "research", task |-> TASK]),
      ToolCall("delegate_task_tool", [agent |-> "nobody", task |-> TASK]),
      ToolCall("propose_plan_tool", [plan_title |-> <<"p">>]) }

\* ------------------------------------------------------------------ state
VARIABLES
    pc,                        \* position of the running code
    frame,                     \* which loop runs: "main", "orch" or "agent"
    multi_agent,               \* run_agent_loop's multi_agent flag
    session_id,                \* run_agent_loop local
    conversation,              \* run_agent_loop local: the transcript
    orchestrator_conversation, \* run_multi_agent_loop local
    agent_conversations,       \* MultiAgentCoordinator.agent_conversations
    agent,                     \* delegate_task_tool's agent argument while it runs
    SESSION_DIR,               \* session files: session id -> persisted record
    CURRENT_SESSION_FILE,      \* the current-session pointer file
    full_content,              \* stream_response local
    tool_calls,                \* stream_response local (dead once the message holds it)
    i,                         \* index of the tool call being processed
    batch_at,                  \* index of the assistant message holding the batch
    o_i, o_at, o_results,      \* the orchestrator's batch locals while a delegation runs
    gate,                      \* what confirm_execution was asked and answered
    fault,                     \* the last exception raised: "none", "tool", "backend"
    turns, emitted,            \* counters for the bounds
    pool,                      \* the requests the backend may make in this run
    calls_made,                \* history: every tool callable invocation
    gates_asked,               \* history: every confirm_execution invocation
    batch_results,             \* history: results of the current batch, in order
    saves,                     \* history: number of save_session calls
    events,                    \* history: the events client.chat has delivered so far
    store_log,                 \* history: the session.py calls made and what they returned
    trim_log,                  \* a transcript, then trim_conversation of it, applied again
    max_messages,              \* trim_conversation's max_messages argument
    confirm_log,               \* confirm_execution calls: what was typed, what came back
    _sessions,                 \* shell_session.py: session id -> the ShellSession registered
    shells,                    \* the ShellSession objects ever made, with their processes
    callers,                   \* threads calling the process tools, each at its position
    ncalls                     \* history: number of tool calls started

vars == <<pc, frame, multi_agent, session_id, conversation,
          orchestrator_conversation, agent_conversations, agent, SESSION_DIR,
          CURRENT_SESSION_FILE, full_content, tool_calls, i, batch_at,
          o_i, o_at, o_results, gate, fault, turns, emitted, pool, calls_made,
          gates_asked, batch_results, saves, events, store_log, trim_log,
          max_messages, confirm_log, _sessions, shells, callers, ncalls>>

store_vars == <<SESSION_DIR, CURRENT_SESSION_FILE, saves>>
conv_vars == <<conversation, orchestrator_conversation, agent_conversations>>
stream_vars == <<full_content, tool_calls, events>>
shell_vars == <<_sessions, shells, callers, ncalls>>
aux_vars == <<confirm_log, shell_vars>>
lab_vars == <<store_log, trim_log, max_messages, aux_vars>>
batch_vars == <<i, batch_at, o_i, o_at, o_results, gate, batch_results>>
count_vars == <<turns, emitted>>
history_vars == <<calls_made, gates_asked>>
run_vars == <<multi_agent, session_id, pool>>

NoGate == [asked |-> FALSE]

Message(role, content) == [role |-> role, content |-> content]
AssistantToolCalls(content, calls) ==
    [role |-> "assistant", content |-> content, tool_calls |-> calls]

\* the session directory an earlier launch left: one session, saved after one
\* completed exchange, and the pointer naming it
EarlierSession ==
    <<Message("system", SYSTEM_PROMPT), Message("user", USER_INPUT),
      Message("assistant", <<"A">>)>>
EarlierFiles ==
    "earlier" :> [session_id |-> "earlier", created_at |-> "earlier",
                  messages |-> EarlierSession]

InitLoop(P, files, pointer) ==
    /\ pc = "boot"
    /\ frame = "main"
    /\ multi_agent = FALSE
    /\ session_id = ""
    /\ conversation = <<>>
    /\ orchestrator_conversation = <<>>
    /\ agent_conversations = <<>>
    /\ agent = ""
    /\ SESSION_DIR = files
    /\ CURRENT_SESSION_FILE = pointer
    /\ full_content = <<>>
    /\ tool_calls = <<>>
    /\ i = 0
    /\ batch_at = 0
    /\ o_i = 0
    /\ o_at = 0
    /\ o_results = <<>>
    /\ gate = NoGate
    /\ fault = "none"
    /\ turns = 0
    /\ emitted = 0
    /\ pool = P
    /\ calls_made = <<>>
    /\ gates_asked = <<>>
    /\ batch_results = <<>>
    /\ saves = 0
    /\ events = <<>>
    /\ store_log = <<>>
    /\ trim_log = <<>>
    /\ max_messages = MAX_MESSAGES
    /\ confirm_log = <<>>

\* no shell session exists when the program starts (shell_session.py 140)
InitShells(threads) ==
    /\ _sessions = <<>>
    /\ shells = <<>>
    /\ callers = [c \in threads |->
                    [pc |-> "idle", tool |-> "", kind |-> "", cid |-> 0,
                     marker |-> 0, late |-> FALSE, stdout_lines |-> <<>>,
                     created |-> FALSE, result |-> "", session |-> 0,
                     saw |-> ""]]
    /\ ncalls = 0

InitRun(P, files, pointer) == InitLoop(P, files, pointer) /\ InitShells({})

\* a launch in an empty home directory, or after an earlier launch
InitWith(P) ==
    \/ InitRun(P, <<>>, None)
    \/ InitRun(P, EarlierFiles, Some("earlier"))

Init == InitWith(PoolCore)

\* ------------------------------------------------- the active transcript
CurConv ==
    IF frame = "main" THEN conversation
    ELSE IF frame = "orch" THEN orchestrator_conversation
    ELSE agent_conversations[agent]

SetCurConv(c) ==
    /\ conversation' = IF frame = "main" THEN c ELSE conversation
    /\ orchestrator_conversation' =
           IF frame = "orch" THEN c ELSE orchestrator_conversation
    /\ agent_conversations' =
           IF frame = "agent" THEN [agent_conversations EXCEPT ![agent] = c]
           ELSE agent_conversations

\* a start-up that hands the resumed transcript to the orchestrator
Start_orchestrator_resumes ==
    /\ pc = "boot"
    /\ \E new_session \in BOOLEAN, multi \in BOOLEAN :
         LET last_session ==
                 IF new_session THEN None
                 ELSE load_last_session(SESSION_DIR, CURRENT_SESSION_FILE)
         IN  IF raised(last_session)
             THEN \* the exception of load_last_session leaves run_agent_loop
                  /\ pc' = "crashed"
                  /\ fault' = "session"
                  /\ UNCHANGED <<multi_agent, session_id, conversation, frame,
                                 orchestrator_conversation>>
             ELSE LET sid == IF last_session.none THEN create_session_id
                             ELSE last_session.value.session_id
                      conv == IF last_session.none
                              THEN <<Message("system", build_system_prompt)>>
                              ELSE last_session.value.conversation
                  IN  /\ multi_agent' = multi
                      /\ session_id' = sid
                      /\ conversation' = conv
                      /\ frame' = IF multi THEN "orch" ELSE "main"
                      /\ orchestrator_conversation' =
                             IF multi
                             THEN conv
                             ELSE <<>>
                      /\ pc' = "prompt"
                      /\ fault' = "none"
    /\ agent_conversations' = <<>>
    /\ agent' = ""
    /\ full_content' = <<>> /\ tool_calls' = <<>> /\ events' = <<>>
    /\ i' = 0 /\ batch_at' = 0 /\ o_i' = 0 /\ o_at' = 0 /\ o_results' = <<>>
    /\ gate' = NoGate /\ batch_results' = <<>>
    /\ calls_made' = <<>> /\ gates_asked' = <<>>
    /\ UNCHANGED <<store_vars, count_vars, pool>>
    /\ UNCHANGED lab_vars

\* ------------------------------------------- run_agent_loop: start-up
\* agent.py 267-317 and multi_agent.py 243-271
Start ==
    /\ pc = "boot"
    /\ \E new_session \in BOOLEAN, multi \in BOOLEAN :
         LET last_session ==
                 IF new_session THEN None
                 ELSE load_last_session(SESSION_DIR, CURRENT_SESSION_FILE)
         IN  IF raised(last_session)
             THEN \* the exception of load_last_session leaves run_agent_loop
                  /\ pc' = "crashed"
                  /\ fault' = "session"
                  /\ UNCHANGED <<multi_agent, session_id, conversation, frame,
                                 orchestrator_conversation>>
             ELSE LET sid == IF last_session.none THEN create_session_id
                             ELSE last_session.value.session_id
                      conv == IF last_session.none
                              THEN <<Message("system", build_system_prompt)>>
                              ELSE last_session.value.conversation
                  IN  /\ multi_agent' = multi
                      /\ session_id' = sid
                      /\ conversation' = conv
                      /\ frame' = IF multi THEN "orch" ELSE "main"
                      /\ orchestrator_conversation' =
                             IF multi
                             THEN <<Message("system",
                                            ORCHESTRATOR_PROMPT \o build_system_prompt)>>
                             ELSE <<>>
                      /\ pc' = "prompt"
                      /\ fault' = "none"
    /\ agent_conversations' = <<>>
    /\ agent' = ""
    /\ full_content' = <<>> /\ tool_calls' = <<>> /\ events' = <<>>
    /\ i' = 0 /\ batch_at' = 0 /\ o_i' = 0 /\ o_at' = 0 /\ o_results' = <<>>
    /\ gate' = NoGate /\ batch_results' = <<>>
    /\ calls_made' = <<>> /\ gates_asked' = <<>>
    /\ UNCHANGED <<store_vars, count_vars, pool>>
    /\ UNCHANGED lab_vars

\* ------------------------------------------- the user-message prompt
\* agent.py 319-332, multi_agent.py 273-286
UserMessage ==
    /\ pc = "prompt"
    /\ SetCurConv(Append(CurConv, Message("user", USER_INPUT)))
    /\ pc' = "model"
    /\ UNCHANGED <<frame, agent, run_vars, store_vars, stream_vars, batch_vars,
                   fault, count_vars, history_vars>>
    /\ UNCHANGED lab_vars

\* empty input: continue
UserEmptyInput ==
    /\ pc = "prompt"
    /\ UNCHANGED vars

\* KeyboardInterrupt / EOFError at the prompt: break
UserInterrupt ==
    /\ pc = "prompt"
    /\ pc' = "exited"
    /\ UNCHANGED <<frame, agent, run_vars, store_vars, conv_vars, stream_vars,
                   batch_vars, fault, count_vars, history_vars>>
    /\ UNCHANGED lab_vars

\* ------------------------------------------------------- stream_response
\* one partial-response event: chunk.message.content, chunk.message.tool_calls
\* (an event carrying neither leaves full_content and tool_calls as they are)
\* the text of the k-th event when it carries text: consecutive fragments
\* differ, so that the order of arrival shows in the accumulated string
Fragment(k) == IF k % 2 = 1 THEN <<"A">> ELSE <<"B">>

Chunks ==
    LET P == IF frame = "orch" THEN PoolOrchestrator ELSE pool
    IN  { [content |-> c, tool_calls |-> tc] :
            c \in {<<>>, Fragment(Len(events) + 1)},
            tc \in {<<>>} \cup { <<x>> : x \in P } }
        \ { [content |-> <<>>, tool_calls |-> <<>>] }

\* agent.py 218-233: client.chat(..., stream=True) is called
StreamStart ==
    /\ pc = "model"
    /\ turns < MaxTurns
    /\ turns' = turns + 1
    /\ full_content' = <<>>
    /\ tool_calls' = <<>>
    /\ events' = <<>>
    /\ pc' = "stream"
    /\ UNCHANGED <<frame, agent, run_vars, store_vars, conv_vars, batch_vars,
                   fault, emitted, history_vars>>
    /\ UNCHANGED lab_vars

\* a loop that puts each new fragment and each new tool call in front of
\* what it has
StreamChunk_prepends ==
    /\ pc = "stream"
    /\ \E chunk \in Chunks :
         /\ emitted + Len(chunk.content) + Len(chunk.tool_calls) <= MaxEmitted
         /\ emitted' = emitted + Len(chunk.content) + Len(chunk.tool_calls)
         /\ full_content' = chunk.content \o full_content
         /\ tool_calls' = chunk.tool_calls \o tool_calls
         /\ events' = Append(events, chunk)
    /\ UNCHANGED <<pc, frame, agent, run_vars, store_vars, conv_vars, batch_vars,
                   fault, turns, history_vars>>
    /\ UNCHANGED lab_vars

\* agent.py 234-253: one iteration of the for loop over the stream
StreamChunk ==
    /\ pc = "stream"
    /\ \E chunk \in Chunks :
         /\ emitted + Len(chunk.content) + Len(chunk.tool_calls) <= MaxEmitted
         /\ emitted' = emitted + Len(chunk.content) + Len(chunk.tool_calls)
         /\ full_content' = IF chunk.content # <<>>
                            THEN full_content \o chunk.content ELSE full_content
         /\ tool_calls' = IF chunk.tool_calls # <<>>
                          THEN tool_calls \o chunk.tool_calls ELSE tool_calls
         /\ events' = Append(events, chunk)
    /\ UNCHANGED <<pc, frame, agent, run_vars, store_vars, conv_vars, batch_vars,
                   fault, turns, history_vars>>
    /\ UNCHANGED lab_vars

\* agent.py 255-264: the stream is exhausted, stream_response returns
StreamEnd ==
    /\ pc = "stream"
    /\ pc' = "returned"
    /\ UNCHANGED <<frame, agent, run_vars, store_vars, conv_vars, stream_vars,
                   batch_vars, fault, count_vars, history_vars>>
    /\ UNCHANGED lab_vars

\* a stream_response that catches the exception and returns what it has
stream_response_swallows == "return"

\* agent.py 227-262: what try/finally does with an exception of client.chat:
\* the finally clause stops the spinner and the exception goes on
stream_response_on_exception == "raise"

\* the backend fails before or between events
StreamFault ==
    /\ pc = "stream"
    /\ fault' = "backend"
    /\ pc' = IF stream_response_on_exception = "raise" THEN "crashed" ELSE "returned"
    /\ UNCHANGED <<frame, agent, run_vars, store_vars, conv_vars, stream_vars,
                   batch_vars, count_vars, history_vars>>
    /\ UNCHANGED lab_vars

\* ------------------------------------------------------ after a model turn
\* an inner loop that ends after every turn
loop_exits_always(calls) == TRUE

\* "if tool_calls: ... else: ... break": the inner loop ends on a turn
\* without tool calls
loop_exits(calls) == calls = <<>>

\* a save that leaves an existing file of that id as it is
save_session_files_keeps_old(files, id, conv) ==
    files @@ (id :> session_data(id, conv))

\* a save that writes nothing
save_session_files_nothing(files, id, conv) == files

\* save_session(session_id, conversation): the files it leaves
save_session_files(files, id, conv) ==
    (id :> session_data(id, conv)) @@ files

\* agent.py 340-346 and 423-433
MainTurn ==
    /\ pc = "returned"
    /\ frame = "main"
    /\ LET msg == IF tool_calls # <<>>
                  THEN AssistantToolCalls(full_content, tool_calls)
                  ELSE Message("assistant", full_content)
           conv == Append(conversation, msg)
       IN  IF loop_exits(tool_calls)
           THEN LET trimmed == trim_conversation(conv, MAX_MESSAGES)
                IN  /\ conversation' = trimmed
                    /\ SESSION_DIR' =
                           save_session_files(SESSION_DIR, session_id, trimmed)
                    /\ CURRENT_SESSION_FILE' = Some(session_id)
                    /\ saves' = saves + 1
                    /\ pc' = "prompt"
                    /\ i' = 0 /\ batch_at' = 0 /\ batch_results' = <<>>
           ELSE /\ conversation' = conv
                /\ batch_at' = Len(conv)
                /\ i' = 1
                /\ batch_results' = <<>>
                /\ pc' = "batch"
                /\ UNCHANGED store_vars
    /\ full_content' = <<>> /\ tool_calls' = <<>> /\ events' = <<>>
    /\ UNCHANGED <<frame, agent, run_vars, orchestrator_conversation,
                   agent_conversations, o_i, o_at, o_results, gate,
                   fault, count_vars, history_vars>>
    /\ UNCHANGED lab_vars

\* after a tool message was appended: the for loop goes on, or the while loop
\* goes back to stream_response
Advance(n) ==
    IF i < n THEN i' = i + 1 /\ pc' = "batch"
    ELSE i' = i /\ pc' = "model"

\* --------------------------------------------- classification and the gate
\* a classification whose dangerous set misses smart_commit_tool
needs_confirmation_missing_one(tool_name, tool_args) ==
    IF tool_name \in DANGEROUS_TOOLS \ {"smart_commit_tool"} THEN TRUE
    ELSE IF tool_name \in CONDITIONAL_TOOLS
    THEN IF tool_name = "sqlite_tool"
         THEN is_sqlite_write_query(get(tool_args, "query", <<>>))
         ELSE is_git_dangerous_action(get(tool_args, "action", ""))
    ELSE FALSE

\* agent.py 357-386 (multi_agent.py 167-195): is confirmation needed?
needs_confirmation(tool_name, tool_args) ==
    IF tool_name \in DANGEROUS_TOOLS THEN TRUE
    ELSE IF tool_name \in CONDITIONAL_TOOLS
    THEN IF tool_name = "sqlite_tool"
         THEN is_sqlite_write_query(get(tool_args, "query", <<>>))
         ELSE is_git_dangerous_action(get(tool_args, "action", ""))
    ELSE FALSE

\* agent.py 359-401: the payload shown at the gate (f-string prefixes abbreviated)
confirm_content(tool_name, tool_args) ==
    IF tool_name = "run_bash_tool" THEN get(tool_args, "command", <<>>)
    ELSE IF tool_name = "run_python_tool" THEN get(tool_args, "code", <<>>)
    ELSE IF tool_name = "install_deps_tool"
    THEN <<"I">> \o get(tool_args, "path", <<".">>)
    ELSE IF tool_name = "smart_commit_tool"
    THEN <<"C">> \o get(tool_args, "custom_message", <<>>)
    ELSE IF tool_name = "sqlite_tool" THEN get(tool_args, "query", <<>>)
    ELSE IF tool_name = "git_tool" THEN <<"g", get(tool_args, "action", "")>>
    ELSE <<>>

\* what the human may type at console.input / getpass: a line, or an interrupt
\* (KeyboardInterrupt, EOFError)
Interrupt == [interrupt |-> TRUE]
Line(text) == [interrupt |-> FALSE, text |-> text]
ConsoleInputs ==
    { Interrupt, Line(<<>>), Line(<<"y">>), Line(<<" ","Y","e","s">>), Line(<<"n">>),
      Line(<<"j","a">>), Line(<<"1">>), Line(<<"2">>), Line(<<"3">>) }
PasswordInputs == { Interrupt, Line(<<>>), Line(SUDO_PASSWORD) }

affirmative == { <<"y">>, <<"y","e","s">>, <<"j">>, <<"j","a">> }

\* agent.py 172-173: has_sudo
has_sudo(tool_name, content) ==
    tool_name = "run_bash_tool" /\ contains(lower(content), <<"s","u","d","o">>)

\* a gate that takes every typed answer for a yes
confirm_execution_any_answer(tool_name, content, input, password_input) ==
    IF input.interrupt THEN [approved |-> FALSE, sudo_password |-> None]
    ELSE [approved |-> TRUE, sudo_password |-> None]

\* agent.py 159-205: confirm_execution(tool_name, content) -> (approved, sudo_password)
confirm_execution(tool_name, content, input, password_input) ==
    LET sudo == has_sudo(tool_name, content)
    IN  IF input.interrupt THEN [approved |-> FALSE, sudo_password |-> None]
        ELSE IF sudo
        THEN LET choice == strip(input.text)
             IN  IF choice = <<"1">> THEN [approved |-> TRUE, sudo_password |-> None]
                 ELSE IF choice = <<"2">>
                 THEN IF password_input.interrupt
                      THEN [approved |-> FALSE, sudo_password |-> None]
                      ELSE [approved |-> TRUE,
                            sudo_password |-> Some(password_input.text)]
                 ELSE [approved |-> FALSE, sudo_password |-> None]
        ELSE [approved |-> lower(strip(input.text)) \in affirmative,
              sudo_password |-> None]

\* Python truthiness of an Optional[str]
truthy(opt) == ~opt.none /\ opt.value # <<>>

\* agent.py 350 and 409-410: tool_args is the arguments dict of the tool call
\* object held by the assistant message, and the password is stored into it
args_after_confirmation(tool_name, tool_args, sudo_password) ==
    IF tool_name = "run_bash_tool" /\ truthy(sudo_password)
    THEN ("sudo_password" :> sudo_password.value) @@ tool_args
    ELSE tool_args

\* ------------------------------------------------ the batch of tool calls
CurCall == CurConv[batch_at].tool_calls[i]
BatchSize == Len(CurConv[batch_at].tool_calls)

\* agent.py 355 / multi_agent.py 160-164: the result for an unregistered name
unknown_tool_result(tool_name) == <<"error", "Unknown tool: ", tool_name>>

\* agent.py 413: the result after a denial
cancelled_result == <<"status", "cancelled">>

\* what the tool callable returns: a success payload or an error dict
tool_result(tool_name, outcome) == <<outcome, tool_name>>

\* a loop that appends no tool message for a denied call
append_tool_result_skip_denied(conv, result) ==
    IF result = cancelled_result THEN conv
    ELSE Append(conv, Message("tool", json_dumps(result)))

\* agent.py 418-422: conversation.append({"role": "tool", ...})
append_tool_result(conv, result) == Append(conv, Message("tool", json_dumps(result)))

AppendResult(result) ==
    /\ SetCurConv(append_tool_result(CurConv, result))
    /\ batch_results' = Append(batch_results, [index |-> i, result |-> result])

\* a loop that looks no tool name up
in_registry_any(tool_name) == TRUE

\* agent.py 354: "if tool_name not in TOOL_REGISTRY" decides on this
in_registry(tool_name) == tool_name \in TOOL_REGISTRY

\* agent.py 348-402 (multi_agent.py 145-211): look the tool up and classify it
ToolCallStart ==
    /\ pc = "batch"
    /\ frame \in {"main", "agent"}
    /\ LET tool_name == CurCall.function.name
           tool_args == CurCall.function.arguments
       IN  IF ~in_registry(tool_name)
           THEN /\ AppendResult(unknown_tool_result(tool_name))
                /\ Advance(BatchSize)
                /\ gate' = NoGate
           ELSE /\ pc' = IF needs_confirmation(tool_name, tool_args)
                         THEN "confirm" ELSE "exec"
                /\ gate' = NoGate
                /\ UNCHANGED <<conv_vars, i, batch_results>>
    /\ UNCHANGED <<frame, agent, run_vars, store_vars, stream_vars, batch_at,
                   o_i, o_at, o_results, fault, count_vars, history_vars>>
    /\ UNCHANGED lab_vars

\* agent.py 191-196 and 203-204: an except (KeyboardInterrupt, EOFError) clause
\* of confirm_execution caught the end of the human's input
prompt_interrupted(tool_name, content, input, password_input) ==
    \/ input.interrupt
    \/ /\ has_sudo(tool_name, content)
       /\ strip(input.text) = <<"2">>
       /\ password_input.interrupt

\* a loop that runs the tool whatever the gate answered
runs_after_gate_always(approved) == TRUE

\* agent.py 405-413: "if approved: ... else: result = cancelled"
runs_after_gate(approved) == approved

\* agent.py 403-413 (multi_agent.py 212-222): the blocking confirmation prompt
Confirm ==
    /\ pc = "confirm"
    /\ \E input \in ConsoleInputs, password_input \in PasswordInputs :
         LET tool_name == CurCall.function.name
             tool_args == CurCall.function.arguments
             content == confirm_content(tool_name, tool_args)
             answer == confirm_execution(tool_name, content, input, password_input)
             asked == [asked |-> TRUE, frame |-> frame, agent |-> agent,
                       batch_at |-> batch_at, index |-> i, tool_name |-> tool_name,
                       content |-> content, approved |-> answer.approved,
                       interrupted |-> prompt_interrupted(tool_name, content,
                                                          input, password_input)]
         IN  /\ gate' = asked
             /\ gates_asked' = Append(gates_asked, asked)
             /\ IF runs_after_gate(answer.approved)
                THEN /\ SetCurConv([CurConv EXCEPT
                            ![batch_at].tool_calls[i].function.arguments =
                                args_after_confirmation(tool_name, tool_args,
                                                        answer.sudo_password)])
                     /\ pc' = "exec"
                     /\ UNCHANGED <<i, batch_results>>
                ELSE /\ AppendResult(cancelled_result)
                     /\ Advance(BatchSize)
    /\ UNCHANGED <<frame, agent, run_vars, store_vars, stream_vars, batch_at,
                   o_i, o_at, o_results, fault, count_vars, calls_made>>
    /\ UNCHANGED lab_vars

\* ----------------------------------------------------- the plan selector
\* str.split(): the whitespace-separated parts
RECURSIVE split(_)
split(s) ==
    LET t == strip(s)
        ws == {k \in 1..Len(t) : t[k] \in WHITESPACE}
    IN  IF t = <<>> THEN <<>>
        ELSE IF ws = {} THEN <<t>>
        ELSE LET k == CHOOSE j \in ws : \A m \in ws : j <= m
             IN  <<SubSeq(t, 1, k - 1)>> \o split(SubSeq(t, k + 1, Len(t)))

DIGITS == <<"0","1","2","3","4","5","6","7","8","9">>
is_int(tok) ==
    tok # <<>> /\ \A k \in 1..Len(tok) : \E d \in 1..10 : DIGITS[d] = tok[k]

\* int(tok) for a token of decimal digits
RECURSIVE int(_)
int(tok) ==
    LET last == (CHOOSE d \in 1..10 : DIGITS[d] = tok[Len(tok)]) - 1
    IN  IF Len(tok) = 1 THEN last
        ELSE 10 * int(SubSeq(tok, 1, Len(tok) - 1)) + last

\* sorted(list(set(...)))
RECURSIVE sorted(_)
sorted(S) ==
    IF S = {} THEN <<>>
    ELSE LET m == CHOOSE x \in S : \A y \in S : x <= y
         IN  <<m>> \o sorted(S \ {m})

\* plan_selector.py 54-86: the selection loop reads `selections` line by line;
\* the end of the lines is the end of the input stream (EOFError).
\* Cancelled(..) is "return []", Some(l) is the break with selected_indices = l
Cancelled(interrupted) == [none |-> TRUE, interrupted |-> interrupted]

RECURSIVE selection_loop(_, _, _)
selection_loop(n, selections, k) ==
    IF k > Len(selections) \/ selections[k].interrupt THEN Cancelled(TRUE)
    ELSE LET selection == lower(strip(selections[k].text))
             tokens == split(selection)
         IN  IF selection = <<>> \/ selection = <<"n","o","n","e">>
             THEN Cancelled(FALSE)
             ELSE IF selection = <<"a","l","l">> THEN Some([j \in 1..n |-> j - 1])
             ELSE IF \E j \in 1..Len(tokens) : ~is_int(tokens[j])
             THEN selection_loop(n, selections, k + 1)
             ELSE LET numbers == { int(tokens[j]) : j \in 1..Len(tokens) }
                  IN  IF \E x \in numbers : x < 1 \/ x > n
                      THEN selection_loop(n, selections, k + 1)
                      ELSE Some(sorted({x - 1 : x \in numbers}))

\* plan_selector.py 91-94: step['description'] of a selected step that has no
\* such key raises KeyError
select_plan_steps_raises(steps, selections) ==
    /\ steps # <<>>
    /\ LET chosen == selection_loop(Len(steps), selections, 1)
       IN  /\ ~chosen.none
           /\ \E j \in 1..Len(chosen.value) :
                  "description" \notin DOMAIN steps[chosen.value[j] + 1]

\* a selector whose last prompt takes the end of the input for its default, yes
select_plan_steps_default_yes(steps, selections, confirm) ==
    IF steps = <<>> THEN <<>>
    ELSE LET chosen == selection_loop(Len(steps), selections, 1)
         IN  IF chosen.none THEN <<>>
             ELSE IF confirm.interrupt THEN chosen.value
             ELSE IF lower(strip(confirm.text))
                         \in {<<>>, <<"y">>, <<"y","e","s">>, <<"j","a">>}
             THEN chosen.value
             ELSE <<>>

\* plan_selector.py 9-108: select_plan_steps(plan_title, steps) -> list[int],
\* when it returns
select_plan_steps(steps, selections, confirm) ==
    IF steps = <<>> THEN <<>>
    ELSE LET chosen == selection_loop(Len(steps), selections, 1)
         IN  IF chosen.none \/ confirm.interrupt THEN <<>>
             ELSE IF lower(strip(confirm.text))
                         \in {<<>>, <<"y">>, <<"y","e","s">>, <<"j","a">>}
             THEN chosen.value
             ELSE <<>>

plan_cancelled == <<"approved", "False", "selected_steps", "message",
                    "Plan cancelled by user">>

\* tools.py 648-699: propose_plan_tool(plan_title, steps) -> dict, when it returns
propose_plan_tool(tool_args, plan_input) ==
    LET steps == get(tool_args, "steps", <<>>)
        selected_indices ==
            select_plan_steps(steps, plan_input.selections, plan_input.confirm)
    IN  IF steps = <<>>
        THEN <<"approved", "False", "error", "No steps provided in plan",
               "selected_steps">>
        ELSE IF selected_indices = <<>> THEN plan_cancelled
        ELSE <<"approved", "True", "selected_steps">>
             \o [j \in 1..Len(selected_indices) |-> ToString(selected_indices[j])]

\* plan_selector.py 84-86 and 106-108: an except (KeyboardInterrupt, EOFError)
\* clause of select_plan_steps caught the end of the human's input
plan_interrupted(tool_args, plan_input) ==
    LET steps == get(tool_args, "steps", <<>>)
        chosen == selection_loop(Len(steps), plan_input.selections, 1)
    IN  /\ steps # <<>>
        /\ IF chosen.none THEN chosen.interrupted
           ELSE /\ ~select_plan_steps_raises(steps, plan_input.selections)
                /\ plan_input.confirm.interrupt

\* the exception leaves propose_plan_tool
propose_plan_tool_raises(tool_args, plan_input) ==
    select_plan_steps_raises(get(tool_args, "steps", <<>>), plan_input.selections)

\* what the human may do at the plan selector's two prompts
PlanInput(selections, confirm) == [selections |-> selections, confirm |-> confirm]
NoPlanInput == PlanInput(<<>>, Interrupt)
SelectionLines ==
    { <<Interrupt>>, <<Line(<<>>)>>, <<Line(<<"N","o","n","e">>)>>,
      <<Line(<<"a","l","l">>)>>, <<Line(<<"1">>)>>, <<Line(<<"2"," "," ","1"," ","2">>)>>,
      <<Line(<<"3">>), Line(<<"2">>)>>, <<Line(<<"1"," ","x">>), Interrupt>>,
      <<Line(<<"0">>)>> }
PlanConfirmLines ==
    { Interrupt, Line(<<>>), Line(<<"Y">>), Line(<<"n">>), Line(<<"j","a">>),
      Line(<<"j">>) }
PlanInputs ==
    { PlanInput(sel, c) : sel \in SelectionLines, c \in PlanConfirmLines }

ToolOutcomes == {"ok", "error", "raise"}

\* agent.py 411 / 416: what the loop does with an exception of func(**tool_args);
\* the call is in no try block, so the exception leaves run_agent_loop
tool_exception_handling == "propagate"

\* agent.py 406-422 (multi_agent.py 215-231): result = func(**tool_args)
Execute ==
    /\ pc = "exec"
    /\ \E outcome \in ToolOutcomes,
          plan_input \in IF CurCall.function.name = "propose_plan_tool"
                         THEN PlanInputs ELSE {NoPlanInput} :
         LET tool_name == CurCall.function.name
             tool_args == CurCall.function.arguments
         IN  /\ tool_name = "propose_plan_tool" =>
                    outcome = IF propose_plan_tool_raises(tool_args, plan_input)
                              THEN "raise" ELSE "ok"
             /\ calls_made' = Append(calls_made,
                    [name |-> tool_name, arguments |-> tool_args, frame |-> frame,
                     agent |-> agent, batch_at |-> batch_at, index |-> i,
                     outcome |-> outcome,
                     interrupted |-> /\ tool_name = "propose_plan_tool"
                                     /\ plan_interrupted(tool_args, plan_input)])
             /\ fault' = IF outcome = "raise" THEN "tool" ELSE fault
             /\ IF outcome = "raise" /\ tool_exception_handling = "propagate"
                THEN /\ pc' = "crashed"
                     /\ UNCHANGED <<conv_vars, i, batch_results>>
                ELSE /\ AppendResult(
                            IF tool_name = "propose_plan_tool"
                            THEN propose_plan_tool(tool_args, plan_input)
                            ELSE tool_result(tool_name,
                                     IF outcome = "raise" THEN "error" ELSE outcome))
                     /\ Advance(BatchSize)
    /\ UNCHANGED <<frame, agent, run_vars, store_vars, stream_vars, batch_at,
                   o_i, o_at, o_results, gate, count_vars, gates_asked>>
    /\ UNCHANGED lab_vars

\* ------------------------------------------------- the specialist's loop
\* delegate_task_tool's return value (multi_agent.py 101-106)
delegation_result(a, task, result) ==
    <<"agent", a, "task">> \o task \o <<"result">> \o result \o <<"success">>

\* multi_agent.py 136-142 and 232-241, then delegate_task_tool 97-106 and the
\* orchestrator's append of the delegation result, multi_agent.py 317-321
AgentTurn ==
    /\ pc = "returned"
    /\ frame = "agent"
    /\ LET msg == IF tool_calls # <<>>
                  THEN AssistantToolCalls(full_content, tool_calls)
                  ELSE Message("assistant", full_content)
           conv == Append(agent_conversations[agent], msg)
       IN  IF loop_exits(tool_calls)
           THEN LET task == orchestrator_conversation[o_at].tool_calls[o_i]
                               .function.arguments.task
                    result == delegation_result(agent, task, full_content)
                    n == Len(orchestrator_conversation[o_at].tool_calls)
                IN  /\ agent_conversations' = [agent_conversations EXCEPT ![agent] = conv]
                    /\ orchestrator_conversation' =
                           append_tool_result(orchestrator_conversation, result)
                    /\ batch_results' = Append(o_results, [index |-> o_i, result |-> result])
                    /\ frame' = "orch"
                    /\ agent' = ""
                    /\ batch_at' = o_at
                    /\ IF o_i < n THEN i' = o_i + 1 /\ pc' = "batch"
                       ELSE i' = o_i /\ pc' = "model"
                    /\ o_i' = 0 /\ o_at' = 0 /\ o_results' = <<>>
           ELSE /\ agent_conversations' = [agent_conversations EXCEPT ![agent] = conv]
                /\ batch_at' = Len(conv)
                /\ i' = 1
                /\ batch_results' = <<>>
                /\ pc' = "batch"
                /\ UNCHANGED <<frame, agent, orchestrator_conversation, o_i, o_at,
                               o_results>>
    /\ full_content' = <<>> /\ tool_calls' = <<>> /\ events' = <<>>
    /\ UNCHANGED <<run_vars, store_vars, conversation, gate, fault,
                   count_vars, history_vars>>
    /\ UNCHANGED lab_vars

\* ------------------------------------------------ the orchestrator's loop
\* multi_agent.py 299-305 and 322-328
OrchTurn ==
    /\ pc = "returned"
    /\ frame = "orch"
    /\ LET msg == IF tool_calls # <<>>
                  THEN AssistantToolCalls(full_content, tool_calls)
                  ELSE Message("assistant", full_content)
           conv == Append(orchestrator_conversation, msg)
       IN  /\ orchestrator_conversation' = conv
           /\ IF loop_exits(tool_calls)
              THEN pc' = "prompt" /\ i' = 0 /\ batch_at' = 0 /\ batch_results' = <<>>
              ELSE /\ batch_at' = Len(conv)
                   /\ i' = 1
                   /\ batch_results' = <<>>
                   /\ pc' = "batch"
    /\ full_content' = <<>> /\ tool_calls' = <<>> /\ events' = <<>>
    /\ UNCHANGED <<frame, agent, run_vars, store_vars, conversation,
                   agent_conversations, o_i, o_at, o_results, gate,
                   fault, count_vars, history_vars>>
    /\ UNCHANGED lab_vars

\* a coordinator that runs a delegation for any agent name
OrchToolCall_any_agent ==
    /\ pc = "batch"
    /\ frame = "orch"
    /\ LET tool_name == CurCall.function.name
           tool_args == CurCall.function.arguments
       IN  IF tool_name = "delegate_task_tool"
           THEN LET a == tool_args.agent
                    seeded == IF a \in DOMAIN agent_conversations
                              THEN agent_conversations[a]
                              ELSE <<Message("system", agent_system_prompt(a))>>
                IN  /\ agent_conversations' =
                           (a :> Append(seeded, Message("user", tool_args.task)))
                               @@ agent_conversations
                    /\ frame' = "agent"
                    /\ agent' = a
                    /\ o_i' = i /\ o_at' = batch_at /\ o_results' = batch_results
                    /\ i' = 0 /\ batch_at' = 0 /\ batch_results' = <<>>
                    /\ pc' = "model"
                    /\ UNCHANGED <<conversation, orchestrator_conversation>>
           ELSE /\ AppendResult(
                      IF tool_name = "delegate_task_tool"
                      THEN <<"error", "Unknown agent: ", tool_args.agent>>
                      ELSE <<"error", "Unknown orchestrator tool: ", tool_name>>)
                /\ Advance(BatchSize)
                /\ UNCHANGED <<frame, agent, batch_at, o_i, o_at, o_results>>
    /\ UNCHANGED <<run_vars, store_vars, stream_vars, gate, fault, count_vars,
                   history_vars>>
    /\ UNCHANGED lab_vars

\* a coordinator that starts every delegation from a new transcript
OrchToolCall_forgets ==
    /\ pc = "batch"
    /\ frame = "orch"
    /\ LET tool_name == CurCall.function.name
           tool_args == CurCall.function.arguments
       IN  IF tool_name = "delegate_task_tool" /\ tool_args.agent \in AGENTS
           THEN LET a == tool_args.agent
                    seeded == <<Message("system", agent_system_prompt(a))>>
                IN  /\ agent_conversations' =
                           (a :> Append(seeded, Message("user", tool_args.task)))
                               @@ agent_conversations
                    /\ frame' = "agent"
                    /\ agent' = a
                    /\ o_i' = i /\ o_at' = batch_at /\ o_results' = batch_results
                    /\ i' = 0 /\ batch_at' = 0 /\ batch_results' = <<>>
                    /\ pc' = "model"
                    /\ UNCHANGED <<conversation, orchestrator_conversation>>
           ELSE /\ AppendResult(
                      IF tool_name = "delegate_task_tool"
                      THEN <<"error", "Unknown agent: ", tool_args.agent>>
                      ELSE <<"error", "Unknown orchestrator tool: ", tool_name>>)
                /\ Advance(BatchSize)
                /\ UNCHANGED <<frame, agent, batch_at, o_i, o_at, o_results>>
    /\ UNCHANGED <<run_vars, store_vars, stream_vars, gate, fault, count_vars,
                   history_vars>>
    /\ UNCHANGED lab_vars

\* multi_agent.py 307-321 with delegate_task_tool 73-95
OrchToolCall ==
    /\ pc = "batch"
    /\ frame = "orch"
    /\ LET tool_name == CurCall.function.name
           tool_args == CurCall.function.arguments
       IN  IF tool_name = "delegate_task_tool" /\ tool_args.agent \in AGENTS
           THEN LET a == tool_args.agent
                    seeded == IF a \in DOMAIN agent_conversations
                              THEN agent_conversations[a]
                              ELSE <<Message("system", agent_system_prompt(a))>>
                IN  /\ agent_conversations' =
                           (a :> Append(seeded, Message("user", tool_args.task)))
                               @@ agent_conversations
                    /\ frame' = "agent"
                    /\ agent' = a
                    /\ o_i' = i /\ o_at' = batch_at /\ o_results' = batch_results
                    /\ i' = 0 /\ batch_at' = 0 /\ batch_results' = <<>>
                    /\ pc' = "model"
                    /\ UNCHANGED <<conversation, orchestrator_conversation>>
           ELSE /\ AppendResult(
                      IF tool_name = "delegate_task_tool"
                      THEN <<"error", "Unknown agent: ", tool_args.agent>>
                      ELSE <<"error", "Unknown orchestrator tool: ", tool_name>>)
                /\ Advance(BatchSize)
                /\ UNCHANGED <<frame, agent, batch_at, o_i, o_at, o_results>>
    /\ UNCHANGED <<run_vars, store_vars, stream_vars, gate, fault, count_vars,
                   history_vars>>
    /\ UNCHANGED lab_vars

\* ------------------------------------------------------------ the system
Next ==
    \/ Start
    \/ UserMessage
    \/ UserEmptyInput
    \/ UserInterrupt
    \/ StreamStart
    \/ StreamChunk
    \/ StreamEnd
    \/ StreamFault
    \/ MainTurn
    \/ AgentTurn
    \/ OrchTurn
    \/ ToolCallStart
    \/ Confirm
    \/ Execute
    \/ OrchToolCall

Spec == Init /\ [][Next]_vars

\* a run in which the backend requests one dangerous tool
InitDangerous == \E d \in DangerousCalls : InitWith({d})
SpecDangerous == InitDangerous /\ [][Next]_vars

\* a run in which the backend requests a sudo command and a plan proposal
PromptCalls ==
    { ToolCall("run_bash_tool", [command |-> cmd_sudo]),
      ToolCall("propose_plan_tool",
               [plan_title |-> <<"p">>,
                steps |-> << [description |-> <<"a">>, agent |-> <<"coding">>],
                             [agent |-> <<"testing">>] >>]) }
InitPrompts == InitWith(PromptCalls)
SpecPrompts == InitPrompts /\ [][Next]_vars

\* a run in which the backend requests sqlite_tool with one query
InitSqlite == \E c \in SqliteCalls : InitWith({c})
SpecSqlite == InitSqlite /\ [][Next]_vars

\* a run in which the backend requests git_tool with one action
InitGit == \E c \in GitCalls : InitWith({c})
SpecGit == InitGit /\ [][Next]_vars

\* ============================================================ properties
Range(f) == { f[k] : k \in DOMAIN f }

ConvOf(f, a) ==
    IF f = "main" THEN conversation
    ELSE IF f = "orch" THEN orchestrator_conversation
    ELSE agent_conversations[a]

\* the gate question or the callable invocation x belongs to call k of the batch
\* held by message `at` of the transcript of frame f (agent a)
IsAbout(x, f, a, at, k) ==
    x.frame = f /\ x.agent = a /\ x.batch_at = at /\ x.index = k

\* `result` is what processing `call` (call k of that batch) produced
ResultOfCall(result, call, f, a, at, k) ==
    LET name == call.function.name
    IN  \/ /\ name \notin TOOL_REGISTRY
           /\ result = <<"error", "Unknown tool: ", name>>
        \/ /\ result = <<"status", "cancelled">>
           /\ \E g \in Range(gates_asked) : IsAbout(g, f, a, at, k) /\ ~g.approved
        \/ \E c \in Range(calls_made) :
              /\ IsAbout(c, f, a, at, k)
              /\ c.name = name
              /\ c.outcome \in {"ok", "error"}
              /\ result = <<c.outcome, name>>

\* C1: whenever the model is about to be invoked again after a turn that carried
\* N >= 1 tool calls (top-level loop or delegated specialist run), exactly N
\* tool-role messages follow that assistant message, and the k-th of them is the
\* result of the k-th call, whether that call was unknown, denied, succeeded or
\* returned an error.
C1_BatchOrder ==
    (pc = "model" /\ frame \in {"main", "agent"} /\ batch_at > 0) =>
        LET conv == CurConv
            calls == conv[batch_at].tool_calls
            N == Len(calls)
        IN  /\ N >= 1
            /\ Len(conv) = batch_at + N
            /\ \A k \in 1..N :
                 /\ conv[batch_at + k].role = "tool"
                 /\ "tool_calls" \notin DOMAIN conv[batch_at + k]
                 /\ \E result \in { <<"error", "Unknown tool: ", calls[k].function.name>>,
                                    <<"status", "cancelled">>,
                                    <<"ok", calls[k].function.name>>,
                                    <<"error", calls[k].function.name>> } :
                      /\ conv[batch_at + k].content = <<"{">> \o result \o <<"}">>
                      /\ ResultOfCall(result, calls[k], frame, agent, batch_at, k)

\* a batch of three calls was processed: one unknown, one denied, one that
\* returned an error; the model is about to be invoked again
C1_Witness ==
    /\ pc = "model" /\ frame = "main" /\ batch_at > 0
    /\ Len(conversation[batch_at].tool_calls) = 3
    /\ conversation[batch_at + 1].content = <<"{", "error", "Unknown tool: ", "no_such_tool", "}">>
    /\ conversation[batch_at + 2].content = <<"{", "status", "cancelled", "}">>
    /\ conversation[batch_at + 3].content = <<"{", "error", "read_file_tool", "}">>

\* C2: a tool that raises gets an error tool result recorded for its call and
\* the run goes on; the exception never ends run_agent_loop.
C2_ToolFaultRecorded ==
    \A c \in Range(calls_made) :
        c.outcome = "raise" =>
            /\ pc # "crashed"
            /\ Len(ConvOf(c.frame, c.agent)) >= c.batch_at + c.index
            /\ ConvOf(c.frame, c.agent)[c.batch_at + c.index].role = "tool"

\* C3: the callable of a tool in DANGEROUS_TOOLS is started only after
\* confirm_execution was asked about that same tool call and returned approved,
\* in the top-level loop and in delegated specialist runs alike.
C3_DangerousOnlyAfterApproval ==
    LET dangerous == {"run_bash_tool", "run_python_tool", "install_deps_tool",
                      "smart_commit_tool"}
    IN  /\ (pc = "exec" /\ CurCall.function.name \in dangerous) =>
               /\ gate.asked /\ gate.approved
               /\ gate.tool_name = CurCall.function.name
               /\ IsAbout(gate, frame, agent, batch_at, i)
        /\ \A c \in Range(calls_made) :
               c.name \in dangerous =>
                   \E g \in Range(gates_asked) :
                       /\ IsAbout(g, c.frame, c.agent, c.batch_at, c.index)
                       /\ g.tool_name = c.name
                       /\ g.approved

\* a specialist ran smart_commit_tool after the gate approved it
C3_Witness ==
    \E c \in Range(calls_made) :
        c.name = "smart_commit_tool" /\ c.frame = "agent" /\ c.outcome = "ok"

\* C4: a denial at the gate yields a cancellation-tagged tool result for that
\* call, the callable is not invoked for it, and the batch goes on with the
\* later calls.
C4_DenialCancelsOnlyThatCall ==
    \A g \in Range(gates_asked) :
        ~g.approved =>
            LET conv == ConvOf(g.frame, g.agent)
            IN  /\ Len(conv) >= g.batch_at + g.index
                /\ conv[g.batch_at + g.index].role = "tool"
                /\ conv[g.batch_at + g.index].content = <<"{", "status", "cancelled", "}">>
                /\ ~ \E c \in Range(calls_made) :
                         IsAbout(c, g.frame, g.agent, g.batch_at, g.index)
                /\ (g.frame = frame /\ g.agent = agent /\ g.batch_at = batch_at) =>
                       \/ i > g.index
                       \/ /\ i = g.index
                          /\ g.index = Len(conv[g.batch_at].tool_calls)
                          /\ pc \in {"model", "stream", "returned", "crashed"}

\* the first call of a batch was denied and the second call of the same batch
\* was approved and ran
C4_Witness ==
    \E g \in Range(gates_asked), c \in Range(calls_made) :
        /\ ~g.approved /\ g.index = 1
        /\ IsAbout(c, g.frame, g.agent, g.batch_at, 2)

\* every tool call recorded in a transcript or a session file
CallsIn(conv) ==
    UNION { Range(conv[k].tool_calls) :
              k \in { j \in 1..Len(conv) : "tool_calls" \in DOMAIN conv[j] } }

Transcripts ==
    {conversation, orchestrator_conversation}
    \cup Range(agent_conversations)
    \cup { SESSION_DIR[id].messages : id \in DOMAIN SESSION_DIR }

\* C5: the sudo credential the gate returned reaches only the one invocation it
\* was given for: no transcript message (tool_calls arguments included) and no
\* session file holds it, and no other tool call receives it.
C5_CredentialNotPersisted ==
    /\ \A conv \in Transcripts : \A call \in CallsIn(conv) :
           "sudo_password" \notin DOMAIN call.function.arguments
    /\ \A c \in Range(calls_made) :
           "sudo_password" \in DOMAIN c.arguments =>
               \E g \in Range(gates_asked) :
                   IsAbout(g, c.frame, c.agent, c.batch_at, c.index) /\ g.approved

\* the call a gate question or an invocation record x is about
CallOf(x) == ConvOf(x.frame, x.agent)[x.batch_at].tool_calls[x.index]

\* C6: a sqlite_tool call is gated if and only if its query is a write
\* statement: every query that modifies the database ran only after the gate
\* approved it, and no gate prompt is shown for a read-only query.
C6_SqliteGatedIffWrite ==
    /\ \A c \in Range(calls_made) :
           (c.name = "sqlite_tool" /\ c.outcome = "ok"
              /\ \E q \in SqlQueries : q.text = c.arguments.query /\ q.writes) =>
               \E g \in Range(gates_asked) :
                   IsAbout(g, c.frame, c.agent, c.batch_at, c.index) /\ g.approved
    /\ \A g \in Range(gates_asked) :
           g.tool_name = "sqlite_tool" =>
               \E q \in SqlQueries : q.text = g.content /\ q.writes

\* C7: a git_tool call runs without a gate prompt exactly when its action is
\* one of status, log, diff, branch, remote; for every other action (unknown
\* and missing ones included) the gate is consulted and git_tool runs only on
\* approval.
C7_GitGatedUnlessSafe ==
    LET ungated == {"status", "log", "diff", "branch", "remote"}
        IsSafe(args) == "action" \in DOMAIN args /\ args.action \in ungated
        Asked(c) == { g \in Range(gates_asked) :
                        IsAbout(g, c.frame, c.agent, c.batch_at, c.index) }
    IN  /\ \A c \in Range(calls_made) :
               c.name = "git_tool" =>
                   /\ IsSafe(c.arguments) <=> Asked(c) = {}
                   /\ \A g \in Asked(c) : g.approved
        /\ \A g \in Range(gates_asked) :
               g.tool_name = "git_tool" => ~IsSafe(CallOf(g).function.arguments)
        /\ (pc = "exec" /\ CurCall.function.name = "git_tool") =>
               IF IsSafe(CurCall.function.arguments)
               THEN ~gate.asked
               ELSE /\ gate.asked /\ gate.approved
                    /\ IsAbout(gate, frame, agent, batch_at, i)

\* a git_tool call with a gated action (push, stash, an unknown one) ran, after
\* the gate approved that very call
C7_Witness ==
    \E c \in Range(calls_made) :
        /\ c.name = "git_tool"
        /\ "action" \in DOMAIN c.arguments
        /\ c.arguments.action \in {"push", "stash", "frobnicate"}
        /\ \E g \in Range(gates_asked) :
               IsAbout(g, c.frame, c.agent, c.batch_at, c.index) /\ g.approved

\* C8: a tool call whose name is absent from TOOL_REGISTRY gets an error-tagged
\* tool message, starts no tool and no gate, does not end the run, and the
\* later calls of its batch are processed.
C8_UnknownToolIsAnError ==
    /\ \A c \in Range(calls_made) : c.name \in TOOL_REGISTRY
    /\ \A g \in Range(gates_asked) : g.tool_name \in TOOL_REGISTRY
    /\ (frame \in {"main", "agent"} /\ batch_at > 0) =>
           LET conv == CurConv
               calls == conv[batch_at].tool_calls
           IN  \A k \in 1..Len(calls) :
                   calls[k].function.name \notin TOOL_REGISTRY =>
                       /\ ~(i = k /\ pc \in {"confirm", "exec"})
                       /\ ~(i = k /\ pc = "crashed" /\ fault = "tool")
                       /\ (i > k \/ (i = k /\ pc # "batch")) =>
                              /\ Len(conv) >= batch_at + k
                              /\ conv[batch_at + k].role = "tool"
                              /\ conv[batch_at + k].content =
                                     <<"{", "error", "Unknown tool: ",
                                       calls[k].function.name, "}">>

\* the first call of a batch named no registered tool and the second call of
\* the same batch ran
C8_Witness ==
    \E c \in Range(calls_made) :
        /\ c.index = 2
        /\ c.frame = frame /\ c.agent = agent /\ c.batch_at = batch_at
        /\ CurConv[batch_at].tool_calls[1].function.name = "no_such_tool"
        /\ CurConv[batch_at + 1].content =
               <<"{", "error", "Unknown tool: ", "no_such_tool", "}">>

\* C9: every transcript save_session writes ends with an assistant message that
\* carries no tool_calls; while a batch is processed, and after a turn ended by
\* a tool fault or a backend fault, the store holds nothing of that exchange.
C9_SavedTranscriptsAreComplete ==
    /\ \A id \in DOMAIN SESSION_DIR :
           LET m == SESSION_DIR[id].messages
           IN  /\ m # <<>>
               /\ m[Len(m)].role = "assistant"
               /\ "tool_calls" \notin DOMAIN m[Len(m)]
    /\ (frame = "main" /\ session_id \in DOMAIN SESSION_DIR
          /\ pc \in {"model", "stream", "returned", "batch", "confirm", "exec",
                     "crashed"}) =>
           LET m == SESSION_DIR[session_id].messages
           IN  /\ Len(m) < Len(conversation)
               /\ m = SubSeq(conversation, 1, Len(m))
               /\ conversation[Len(m) + 1].role = "user"

\* a completed exchange with a tool batch was saved, and a later exchange of
\* the same run was ended by a fault
C9_Witness ==
    /\ saves > 0
    /\ pc = "crashed"
    /\ frame = "main"
    /\ session_id \in DOMAIN SESSION_DIR
    /\ \E k \in 1..Len(SESSION_DIR[session_id].messages) :
           SESSION_DIR[session_id].messages[k].role = "tool"

\* C10: a backend failure during streaming ends the turn (neither
\* stream_response nor the loop swallows it), and nothing of the partially
\* received response is appended to the transcript or written to the store.
C10_BackendFaultPropagates ==
    fault = "backend" =>
        LET conv == CurConv
        IN  /\ pc = "crashed"
            /\ conv[Len(conv)].role \in {"user", "tool"}
            /\ (frame = "main" /\ session_id \in DOMAIN SESSION_DIR) =>
                   Len(SESSION_DIR[session_id].messages) < Len(conversation)
            /\ \A id \in DOMAIN SESSION_DIR :
                   LET m == SESSION_DIR[id].messages
                   IN  "tool_calls" \notin DOMAIN m[Len(m)]

\* the backend failed after content and a tool call had been received
C10_Witness ==
    /\ fault = "backend"
    /\ pc = "crashed"
    /\ full_content # <<>>
    /\ tool_calls # <<>>

\* ------------------------------------------------- session.py on its own
\* the session store driven directly, as the sessions commands and the loop
\* drive it: any sequence of save, load, delete and clear
MaxOps == 3

SessionIds == {"a", "b"}
StoreTranscripts ==
    { <<>>,
      <<Message("system", SYSTEM_PROMPT)>>,
      <<Message("system", SYSTEM_PROMPT), Message("user", USER_INPUT),
        Message("assistant", <<"A">>)>> }

Without(files, id) == [k \in DOMAIN files \ {id} |-> files[k]]

\* a delete that leaves the pointer file alone
delete_session_keeps_pointer(files, pointer, id) ==
    IF id \notin DOMAIN files
    THEN [files |-> files, pointer |-> pointer, result |-> FALSE]
    ELSE [files |-> Without(files, id), pointer |-> pointer, result |-> TRUE]

\* delete_session(session_id)
delete_session(files, pointer, id) ==
    IF id \notin DOMAIN files
    THEN [files |-> files, pointer |-> pointer, result |-> FALSE]
    ELSE LET current == get_current_session_id(pointer)
         IN  [files |-> Without(files, id),
              pointer |-> IF current = Some(id) THEN None ELSE pointer,
              result |-> TRUE]

\* clear_all_sessions()
clear_all_sessions(files, pointer) ==
    [files |-> <<>>, pointer |-> None, result |-> Cardinality(DOMAIN files)]

loop_vars == <<pc, frame, agent, run_vars, conv_vars, stream_vars, batch_vars,
               count_vars, history_vars, fault, saves, aux_vars>>

\* one entry of store_log; `current` is get_current_session_id() before the call
Logged(op, id, conv, result) ==
    [op |-> op, id |-> id, conversation |-> conv, result |-> result,
     current |-> get_current_session_id(CURRENT_SESSION_FILE)]

SaveSession ==
    /\ Len(store_log) < MaxOps
    /\ \E id \in SessionIds, conv \in StoreTranscripts :
         /\ SESSION_DIR' = save_session_files(SESSION_DIR, id, conv)
         /\ CURRENT_SESSION_FILE' = Some(id)
         /\ store_log' = Append(store_log, Logged("save_session", id, conv, None))
    /\ UNCHANGED <<loop_vars, trim_log, max_messages>>

LoadSession ==
    /\ Len(store_log) < MaxOps
    /\ \E id \in SessionIds :
         store_log' = Append(store_log,
             Logged("load_session", id, <<>>, load_session(SESSION_DIR, id)))
    /\ UNCHANGED <<loop_vars, SESSION_DIR, CURRENT_SESSION_FILE, trim_log, max_messages>>

LoadLastSession ==
    /\ Len(store_log) < MaxOps
    /\ store_log' = Append(store_log,
           Logged("load_last_session", "", <<>>,
                  load_last_session(SESSION_DIR, CURRENT_SESSION_FILE)))
    /\ UNCHANGED <<loop_vars, SESSION_DIR, CURRENT_SESSION_FILE, trim_log, max_messages>>

DeleteSession ==
    /\ Len(store_log) < MaxOps
    /\ \E id \in SessionIds :
         LET after == delete_session(SESSION_DIR, CURRENT_SESSION_FILE, id)
         IN  /\ SESSION_DIR' = after.files
             /\ CURRENT_SESSION_FILE' = after.pointer
             /\ store_log' = Append(store_log,
                    Logged("delete_session", id, <<>>, after.result))
    /\ UNCHANGED <<loop_vars, trim_log, max_messages>>

ClearAllSessions ==
    /\ Len(store_log) < MaxOps
    /\ LET after == clear_all_sessions(SESSION_DIR, CURRENT_SESSION_FILE)
       IN  /\ SESSION_DIR' = after.files
           /\ CURRENT_SESSION_FILE' = after.pointer
           /\ store_log' = Append(store_log,
                  Logged("clear_all_sessions", "", <<>>, after.result))
    /\ UNCHANGED <<loop_vars, trim_log, max_messages>>

NextStore ==
    \/ SaveSession
    \/ LoadSession
    \/ LoadLastSession
    \/ DeleteSession
    \/ ClearAllSessions

InitStore == InitRun({}, <<>>, None)
SpecStore == InitStore /\ [][NextStore]_vars

\* C11: save_session(id, T) followed by load_session(id) returns T, and
\* followed by load_last_session() returns (id, T), for every transcript T, the
\* empty one included.
C11_SessionRoundTrip ==
    \A k \in 2..Len(store_log) :
        LET saved == store_log[k - 1]
            loaded == store_log[k]
        IN  saved.op = "save_session" =>
                /\ (loaded.op = "load_session" /\ loaded.id = saved.id) =>
                       loaded.result = Some(saved.conversation)
                /\ loaded.op = "load_last_session" =>
                       loaded.result = Some([session_id |-> saved.id,
                                             conversation |-> saved.conversation])

\* the call at position k removed the session the pointer referenced
RemovedCurrent(k) ==
    \/ /\ store_log[k].op = "delete_session"
       /\ store_log[k].result = TRUE
       /\ store_log[k].current = Some(store_log[k].id)
    \/ /\ store_log[k].op = "clear_all_sessions"
       /\ ~store_log[k].current.none

\* C12: when delete_session or clear_all_sessions removes the session the
\* pointer references, the pointer is cleared and load_last_session() finds
\* nothing; the pointer never names a session whose file is gone.
C12_DeletionClearsPointer ==
    /\ \A id \in SessionIds :
           CURRENT_SESSION_FILE = Some(id) => id \in DOMAIN SESSION_DIR
    /\ \A k \in 1..Len(store_log) :
           RemovedCurrent(k) =>
               /\ k = Len(store_log) => CURRENT_SESSION_FILE = None
               /\ (k < Len(store_log) /\ store_log[k + 1].op = "load_last_session") =>
                      store_log[k + 1].result = None

\* a session was saved, deleted while the pointer named it, and then
\* load_last_session() was called
C12_Witness ==
    /\ Len(store_log) = 3
    /\ store_log[1].op = "save_session"
    /\ store_log[1].conversation # <<>>
    /\ RemovedCurrent(2)
    /\ store_log[2].op = "delete_session"
    /\ store_log[3].op = "load_last_session"

\* positions of the calls that changed the store
Saves(id) == { k \in 1..Len(store_log) :
                 store_log[k].op = "save_session" /\ store_log[k].id = id }
Removals(id) ==
    { k \in 1..Len(store_log) :
        \/ store_log[k].op = "clear_all_sessions"
        \/ store_log[k].op = "delete_session" /\ store_log[k].id = id
             /\ store_log[k].result = TRUE }
Latest(S) == CHOOSE k \in S : \A j \in S : j <= k

\* C13: load_session(id) returns exactly the transcript of the most recent
\* save under id, a save under one id leaves every other id's transcript as
\* it was, and the pointer names the id of the most recent save overall.
C13_LastSaveWins ==
    /\ \A id \in SessionIds :
           (Saves(id) # {} /\ \A r \in Removals(id) : r < Latest(Saves(id))) =>
               /\ load_session(SESSION_DIR, id) =
                      Some(store_log[Latest(Saves(id))].conversation)
               /\ \A k \in (Latest(Saves(id)) + 1)..Len(store_log) :
                      (store_log[k].op = "load_session" /\ store_log[k].id = id) =>
                          store_log[k].result =
                              Some(store_log[Latest(Saves(id))].conversation)
    /\ LET changes == UNION { Saves(id) \cup Removals(id) : id \in SessionIds }
       IN  (changes # {} /\ store_log[Latest(changes)].op = "save_session") =>
               CURRENT_SESSION_FILE = Some(store_log[Latest(changes)].id)

\* a longer transcript was saved under an id, a shorter one was saved under the
\* same id, and load_session returned the shorter one
C13_Witness ==
    /\ Len(store_log) = 3
    /\ store_log[1].op = "save_session" /\ Len(store_log[1].conversation) = 3
    /\ store_log[2].op = "save_session" /\ Len(store_log[2].conversation) = 1
    /\ store_log[2].id = store_log[1].id
    /\ store_log[3].op = "load_session" /\ store_log[3].id = store_log[1].id
    /\ store_log[3].result = Some(store_log[2].conversation)

\* ------------------------------------ a launch over a damaged session file
\* what the file of the session the pointer names may hold at launch: the
\* record save_session wrote, a JSON object without "messages", or no record
StoredAtLaunch ==
    { [session_id |-> "earlier", created_at |-> "earlier", messages |-> EarlierSession],
      [session_id |-> "earlier", created_at |-> "earlier"],
      MALFORMED, NOT_A_RECORD, UNREADABLE }

ResumePool == { ToolCall("run_bash_tool", [command |-> cmd_ls]) }

InitResume ==
    \E stored \in StoredAtLaunch :
        InitRun(ResumePool, "earlier" :> stored, Some("earlier"))
SpecResume == InitResume /\ [][Next]_vars

\* C14: when the file of the session the pointer names is corrupt or
\* unreadable, loading reports the session as absent instead of raising, and
\* run_agent_loop starts a fresh session: a new id and a transcript holding
\* only the system prompt.
C14_CorruptSessionIsAbsent ==
    LET stored == SESSION_DIR["earlier"]
    IN  ("corrupt" \in DOMAIN stored /\ pc # "boot") =>
            /\ fault # "session"
            /\ session_id = create_session_id
            /\ conversation # <<>>
            /\ conversation[1] = Message("system", build_system_prompt)
            /\ (pc = "prompt" /\ turns = 0) =>
                   conversation = <<Message("system", build_system_prompt)>>

\* ------------------------------------------- trim_conversation on its own
MaxTrimLen == 4
MaxTrims == 3
MaxRounds == 49

\* the kinds of message a transcript holds; "call" is an assistant message
\* carrying tool_calls
Kinds == {"system", "user", "call", "tool", "assistant"}

\* how many tool messages directly follow position k
ToolsAfter(kinds, k) ==
    LET stops == { j \in (k + 1)..(Len(kinds) + 1) :
                     j = Len(kinds) + 1 \/ kinds[j] # "tool" }
    IN  (CHOOSE j \in stops : \A h \in stops : j <= h) - k - 1

\* the transcript with these kinds of message; each message carries its
\* position as content, so that no two messages are equal
TranscriptOf(kinds) ==
    [k \in 1..Len(kinds) |->
        IF kinds[k] = "call"
        THEN AssistantToolCalls(<<"m", ToString(k)>>,
                 [c \in 1..(IF ToolsAfter(kinds, k) = 0 THEN 1 ELSE ToolsAfter(kinds, k))
                     |-> ToolCall("read_file_tool", [path |-> <<"f">>])])
        ELSE Message(kinds[k], <<"m", ToString(k)>>)]

SmallTranscripts ==
    { TranscriptOf(kinds) : kinds \in UNION { [1..n -> Kinds] : n \in 0..MaxTrimLen } }

\* one long exchange as run_agent_loop builds it: a first batch of b calls,
\* then r turns of one call each, then the final answer
LongKinds(b, r) ==
    <<"system", "user", "call">> \o [k \in 1..b |-> "tool"]
    \o [k \in 1..(2 * r) |-> IF k % 2 = 1 THEN "call" ELSE "tool"]
    \o <<"assistant">>

LongTranscripts ==
    { TranscriptOf(LongKinds(b, r)) : b \in 1..2, r \in 47..MaxRounds }

TrimBounds == {0, 1, 2, 3, MAX_MESSAGES}

KindOf(msg) ==
    IF msg.role = "assistant" /\ "tool_calls" \in DOMAIN msg THEN "call" ELSE msg.role

\* agent.py 298-433: the shape of every transcript the loop hands to
\* trim_conversation: the system prompt, then exchanges of a user message,
\* any number of batches (a call message and one tool message per call), and
\* one final assistant message
LoopBuilt(conv) ==
    LET N == Len(conv)
        kind(k) == KindOf(conv[k])
    IN  /\ N >= 3
        /\ kind(N) = "assistant"
        /\ \A k \in 1..N :
             /\ kind(k) = "system" <=> k = 1
             /\ kind(k) = "user" =>
                    /\ k = 2 \/ kind(k - 1) = "assistant"
                    /\ kind(k + 1) \in {"call", "assistant"}
             /\ kind(k) = "assistant" => (k = N \/ kind(k + 1) = "user")
             /\ kind(k) = "call" =>
                    LET n == Len(conv[k].tool_calls)
                    IN  /\ k + n + 1 <= N
                        /\ \A j \in (k + 1)..(k + n) : kind(j) = "tool"
                        /\ kind(k + n + 1) \in {"call", "assistant"}
             /\ kind(k) = "tool" =>
                    \E j \in 1..(k - 1) :
                        /\ kind(j) = "call"
                        /\ k - j <= Len(conv[j].tool_calls)

\* a transcript is handed to trim_conversation(conversation, max_messages)
TrimCall ==
    /\ trim_log = <<>>
    /\ \E conv \in SmallTranscripts \cup LongTranscripts, m \in TrimBounds :
         /\ max_messages' = m
         /\ trim_log' = <<conv, trim_conversation(conv, m)>>
    /\ UNCHANGED <<loop_vars, SESSION_DIR, CURRENT_SESSION_FILE, store_log>>

\* the result is handed to trim_conversation again, with the same bound
TrimAgain ==
    /\ trim_log # <<>>
    /\ Len(trim_log) < MaxTrims
    /\ trim_log' = Append(trim_log,
                          trim_conversation(trim_log[Len(trim_log)], max_messages))
    /\ UNCHANGED <<loop_vars, SESSION_DIR, CURRENT_SESSION_FILE, store_log,
                   max_messages>>

NextTrim ==
    \/ TrimCall
    \/ TrimAgain

InitTrim == InitRun({}, <<>>, None)
SpecTrim == InitTrim /\ [][NextTrim]_vars

\* C15: for a transcript whose first message has role system and a bound
\* max_messages >= 1, trimming twice gives what trimming once gives, and the
\* first message of the result is the original system message.
C15_TrimIdempotent ==
    (Len(trim_log) >= 3 /\ trim_log[1] # <<>> /\ max_messages >= 1) =>
        (trim_log[1][1].role = "system" =>
            /\ trim_log[3] = trim_log[2]
            /\ trim_log[2] # <<>>
            /\ trim_log[2][1] = trim_log[1][1])

\* C16: trim_conversation returns the input unchanged when its length is at or
\* below max_messages; otherwise the result is the first message iff its role
\* is system, followed by exactly the last (max_messages - preserved_count)
\* messages in their order, so it never holds more than max_messages messages.
C16_TrimKeepsMostRecent ==
    Len(trim_log) >= 2 =>
        LET conv == trim_log[1]
            out == trim_log[2]
            N == Len(conv)
            preserved == IF N > 0 /\ conv[1].role = "system" THEN <<conv[1]>> ELSE <<>>
            keep == max_messages - Len(preserved)
        IN  IF N <= max_messages THEN out = conv
            ELSE keep >= 0 =>
                     /\ out = preserved \o SubSeq(conv, N - keep + 1, N)
                     /\ Len(out) <= max_messages

\* C17: for a transcript the agent loop built, trimmed with the loop's bound,
\* the first message kept after the system message is never a tool message
\* whose requesting assistant tool-call message was discarded.
C17_NoOrphanToolMessage ==
    (Len(trim_log) >= 2 /\ LoopBuilt(trim_log[1]) /\ max_messages = MAX_MESSAGES) =>
        LET conv == trim_log[1]
            out == trim_log[2]
            first == IF out[1].role = "system" THEN 2 ELSE 1
            at == CHOOSE k \in 1..Len(conv) : conv[k] = out[first]
            requester == CHOOSE j \in 1..(at - 1) :
                             /\ KindOf(conv[j]) = "call"
                             /\ \A h \in (j + 1)..(at - 1) : KindOf(conv[h]) # "call"
        IN  (Len(out) >= first /\ out[first].role = "tool") =>
                \E k \in 1..Len(out) : out[k] = conv[requester]

\* ------------------------------------------------------ stream_response
\* all content fragments of the events, and all their tool-call lists, joined
\* in arrival order
RECURSIVE ContentOf(_)
ContentOf(evs) ==
    IF evs = <<>> THEN <<>> ELSE evs[1].content \o ContentOf(Tail(evs))

RECURSIVE CallsOf(_)
CallsOf(evs) ==
    IF evs = <<>> THEN <<>> ELSE evs[1].tool_calls \o CallsOf(Tail(evs))

\* C18: stream_response returns the concatenation of all content fragments and
\* the concatenation of all events' tool-call lists, both in arrival order,
\* once the event sequence is exhausted; for no events it returns ("", []).
C18_StreamAccumulates ==
    /\ pc \in {"stream", "returned"} =>
           /\ full_content = ContentOf(events)
           /\ tool_calls = CallsOf(events)
    /\ (pc = "returned" /\ events = <<>>) =>
           (full_content = <<>> /\ tool_calls = <<>>)

\* stream_response returned after two events with different text, one of
\* them carrying a tool call as well
C18_Witness ==
    /\ pc = "returned"
    /\ fault = "none"
    /\ Len(events) = 2
    /\ full_content = <<"A", "B">>
    /\ Len(tool_calls) = 1

\* ------------------------------------------------- one complete exchange
\* a run that started from a fresh transcript has completed its first
\* exchange: one model turn with a single ungated, registered tool call that
\* returned, then one model turn without tool calls
OneToolExchange ==
    /\ frame = "main"
    /\ pc = "prompt"
    /\ session_id = create_session_id
    /\ turns = 2
    /\ saves = 1
    /\ gates_asked = <<>>
    /\ Len(calls_made) = 1
    /\ Len(conversation) >= 3
    /\ "tool_calls" \in DOMAIN conversation[3]
    /\ Len(conversation[3].tool_calls) = 1

\* C19: from a fresh transcript [system], a user message, a model turn with one
\* ungated tool call and a model turn with no tool calls leave exactly system,
\* user, assistant(with tool_calls), tool(result), assistant(final), and this
\* five-message transcript is what save_session persists for the session.
C19_FiveMessageExchange ==
    OneToolExchange =>
        /\ Len(conversation) = 5
        /\ conversation[1] = [role |-> "system", content |-> SYSTEM_PROMPT]
        /\ conversation[2] = [role |-> "user", content |-> USER_INPUT]
        /\ conversation[3].role = "assistant"
        /\ conversation[3].tool_calls[1].function.name = calls_made[1].name
        /\ DOMAIN conversation[4] = {"role", "content"}
        /\ conversation[4].role = "tool"
        /\ conversation[4].content =
               <<"{", calls_made[1].outcome, calls_made[1].name, "}">>
        /\ DOMAIN conversation[5] = {"role", "content"}
        /\ conversation[5].role = "assistant"
        /\ session_id \in DOMAIN SESSION_DIR
        /\ SESSION_DIR[session_id].session_id = session_id
        /\ SESSION_DIR[session_id].messages = conversation
        /\ CURRENT_SESSION_FILE = [none |-> FALSE, value |-> session_id]

\* the exchange happened with read_file_tool, and the final answer had text
C19_Witness ==
    /\ OneToolExchange
    /\ calls_made[1].name = "read_file_tool"
    /\ calls_made[1].outcome = "ok"
    /\ Len(conversation) = 5
    /\ conversation[5].content # <<>>

\* ------------------------------------------------- specialist transcripts
IsPrefix(p, q) == Len(p) <= Len(q) /\ p = SubSeq(q, 1, Len(p))

\* C20: each specialist name has one transcript, seeded once with that
\* specialist's system prompt; every step only appends to it, so a later
\* delegation to the name finds all earlier messages, and a step changes no
\* transcript but that of the specialist the delegation runs.
C20_SpecialistMemory ==
    /\ [](\A a \in DOMAIN agent_conversations :
             LET conv == agent_conversations[a]
             IN  /\ conv # <<>>
                 /\ conv[1] = [role |-> "system", content |-> <<"P", a>>]
                 /\ \A k \in 2..Len(conv) : conv[k].role # "system")
    /\ [][ /\ \A a \in DOMAIN agent_conversations :
                /\ a \in DOMAIN agent_conversations'
                /\ IsPrefix(agent_conversations[a], agent_conversations'[a])
           /\ \A a \in DOMAIN agent_conversations' :
                (a \notin DOMAIN agent_conversations
                   \/ agent_conversations'[a] # agent_conversations[a]) =>
                    (a = agent \/ a = agent')
         ]_vars

\* a third delegation went to the specialist of the first one, after another
\* specialist had run in between: its transcript holds the first task, the
\* first answer and the new task after the one system prompt
C20_Witness ==
    /\ frame = "agent"
    /\ agent = "coding"
    /\ "research" \in DOMAIN agent_conversations
    /\ Len(agent_conversations["coding"]) = 4
    /\ agent_conversations["coding"][2].role = "user"
    /\ agent_conversations["coding"][3].role = "assistant"
    /\ agent_conversations["coding"][4].role = "user"

\* ------------------------------------------------- specialists' tool subsets
\* the tools list each specialist is constructed with (agents/*.py)
agent_tools(a) ==
    IF a = "coding" THEN
        {"propose_plan_tool", "read_file_tool", "edit_file_tool",
         "list_files_tool", "run_bash_tool", "run_python_tool",
         "create_venv_tool", "install_deps_tool", "manage_shell_session_tool",
         "git_tool", "smart_commit_tool"}
    ELSE IF a = "research" THEN
        {"read_file_tool", "list_files_tool", "search_code_tool"}
    ELSE IF a = "testing" THEN
        {"read_file_tool", "edit_file_tool", "list_files_tool",
         "search_code_tool", "run_bash_tool", "run_python_tool",
         "manage_shell_session_tool"}
    ELSE IF a = "bioinformatics" THEN
        {"read_file_tool", "edit_file_tool", "run_python_tool", "kegg_tool",
         "pdb_tool", "uniprot_tool", "ncbi_tool", "ontology_tool", "blast_tool",
         "analyze_pathway_tool", "compare_organisms_tool",
         "find_alternatives_tool"}
    ELSE {}

\* C21: during a delegated run the specialist executes only tools of its own
\* tool subset; a registered tool outside the subset is not executed.
C21_SpecialistToolSubset ==
    \A c \in Range(calls_made) :
        c.frame = "agent" => c.name \in agent_tools(c.agent)

\* ------------------------------------------------- orchestrator meta-tools
\* multi_agent.py 271: the tools offered to the orchestrator's model
orchestrator_tools == {"propose_plan_tool", "delegate_task_tool"}

\* C22: each of the orchestrator's two meta-tools is dispatched; neither is
\* answered with an unknown-tool error in the orchestrator's transcript.
C22_MetaToolsDispatched ==
    \A k \in 1..Len(orchestrator_conversation) :
        LET m == orchestrator_conversation[k]
        IN  m.role = "tool" =>
                \A t \in orchestrator_tools :
                    m.content # json_dumps(<<"error", "Unknown orchestrator tool: ", t>>)

\* ------------------------------------------------- delegation to nobody
UnknownAgentCall ==
    /\ pc = "batch"
    /\ frame = "orch"
    /\ CurCall.function.name = "delegate_task_tool"
    /\ CurCall.function.arguments.agent \notin AGENTS

unknown_agent_message(a) ==
    Message("tool", json_dumps(<<"error", "Unknown agent: ", a>>))

\* C23: a delegation to an unknown agent name is answered with an error result
\* and raises nothing: the step makes no model call, creates and changes no
\* specialist transcript, appends the error as the tool message of the call to
\* the orchestrator's transcript, and the orchestrator's loop goes on.
C23_UnknownAgentIsAnError ==
    /\ [](\A a \in DOMAIN agent_conversations : a \in AGENTS)
    /\ [][ UnknownAgentCall =>
             /\ orchestrator_conversation' =
                    Append(orchestrator_conversation,
                           unknown_agent_message(CurCall.function.arguments.agent))
             /\ agent_conversations' = agent_conversations
             /\ turns' = turns /\ emitted' = emitted
             /\ frame' = "orch"
             /\ fault' = fault
             /\ pc' \in {"batch", "model"}
         ]_vars

\* the error for the unknown name is in the orchestrator's transcript, the
\* orchestrator's model was called again after it, and no transcript exists for
\* the name
C23_Witness ==
    /\ \E k \in 1..Len(orchestrator_conversation) :
          /\ orchestrator_conversation[k] = unknown_agent_message("nobody")
          /\ k < Len(orchestrator_conversation)
          /\ orchestrator_conversation[k + 1].role = "assistant"
    /\ "nobody" \notin DOMAIN agent_conversations
    /\ pc # "crashed"

\* ------------------------------------------------- multi-agent mode and the store
OrchestratorSeed ==
    <<Message("system", ORCHESTRATOR_PROMPT \o build_system_prompt)>>

MaxConfirms == 1

GateTools == {"run_bash_tool", "run_python_tool"}
GateContents == {cmd_ls, cmd_sudo, <<"S","u","d","o"," ","l","s">>}
GateAnswers ==
    ConsoleInputs
    \cup { Line(<<"Y">>), Line(<<"Y","E","S">>), Line(<<"y","e","s"," ">>),
           Line(<<"J">>), Line(<<"J","a">>), Line(<<"n","o">>),
           Line(<<"y","e","s","!">>), Line(<<" ","1"," ">>), Line(<<" ","2">>),
           Line(<<" ">>) }

base_vars == <<pc, frame, agent, run_vars, conv_vars, stream_vars, batch_vars,
               count_vars, history_vars, fault, store_vars, store_log, trim_log,
               max_messages>>

\* one call confirm_execution(tool_name, content) with what the human does at
\* its prompts
ConfirmCall ==
    /\ Len(confirm_log) < MaxConfirms
    /\ \E tool_name \in GateTools, content \in GateContents,
          input \in GateAnswers, password_input \in PasswordInputs :
         confirm_log' = Append(confirm_log,
             [tool_name |-> tool_name, content |-> content, input |-> input,
              password_input |-> password_input,
              result |-> confirm_execution(tool_name, content, input,
                                           password_input)])
    /\ UNCHANGED <<base_vars, shell_vars>>

NextConfirm == ConfirmCall
InitConfirm == InitRun({}, <<>>, None)
SpecConfirm == InitConfirm /\ [][NextConfirm]_vars

\* the answer e.input approves an ordinary command when, stripped and
\* lower-cased, it is one of `words`; it approves a sudo command when it is
\* option 1, or option 2 with a credential typed at the second prompt
Approving(e, words) ==
    /\ ~e.input.interrupt
    /\ IF has_sudo(e.tool_name, e.content)
       THEN \/ strip(e.input.text) = <<"1">>
            \/ strip(e.input.text) = <<"2">> /\ ~e.password_input.interrupt
       ELSE lower(strip(e.input.text)) \in words

GateDecides(words) ==
    \A e \in Range(confirm_log) :
        /\ e.result.approved <=> Approving(e, words)
        /\ ~e.result.approved => e.result.sudo_password = None
        /\ ~e.result.sudo_password.none =>
               /\ has_sudo(e.tool_name, e.content)
               /\ strip(e.input.text) = <<"2">>
               /\ e.result.sudo_password = Some(e.password_input.text)

\* C26 as stated: confirm_execution approves exactly on y or yes (any letter
\* case) for an ordinary command and on option 1 or 2 for a sudo command; every
\* other answer, empty input, and an interrupt or end of input at either prompt
\* is denied with no credential.
C26_ApprovesOnlyOnYes ==
    GateDecides({<<"y">>, <<"y","e","s">>})

\* C26, amended: the approving answers for an ordinary command are y, yes, j
\* and ja (any letter case, surrounding blanks ignored); option 1 or 2 for a
\* sudo command; everything else, an interrupt or end of input at either
\* prompt included, is denied with no credential.
C26_ApprovesOnlyOnAffirmative ==
    GateDecides({<<"y">>, <<"y","e","s">>, <<"j">>, <<"j","a">>})

\* option 2 was chosen for a sudo command and the credential prompt was
\* interrupted: denied, no credential
C26_Witness ==
    \E e \in Range(confirm_log) :
        /\ has_sudo(e.tool_name, e.content)
        /\ e.input = Line(<<"2">>)
        /\ e.password_input = Interrupt
        /\ ~e.result.approved
        /\ e.result.sudo_password = None

\* ------------------------------------------------- interrupts at the prompts
LastMessage(conv) == conv[Len(conv)]

\* the step appended one tool message with this result to the running
\* transcript and went on with the next call or the next model turn
CancelledAndGoesOn(result) ==
    /\ CurConv' = Append(CurConv, Message("tool", json_dumps(result)))
    /\ pc' \in {"batch", "model"}
    /\ frame' = frame /\ agent' = agent
    /\ fault' = fault
    /\ turns' = turns
    /\ UNCHANGED store_vars

\* C27: an interrupt or end of input at the user-message prompt ends the run:
\* no message is appended, the model is not called and nothing is saved. An
\* interrupt at the confirmation or credential prompt denies that call only, one
\* at a prompt of the plan selector gives the empty selection: the tool is not
\* run (the plan is reported as cancelled), its tool message is appended and
\* the loop goes on with the next call or model turn.
C27_InterruptCancelsOneOperation ==
    /\ [][ pc' = "exited" =>
             /\ pc = "prompt"
             /\ UNCHANGED <<conv_vars, count_vars, store_vars, history_vars>> ]_vars
    /\ [][ pc # "exited" ]_vars
    /\ [][ (pc = "confirm" /\ gate'.interrupted) =>
             /\ ~gate'.approved
             /\ calls_made' = calls_made
             /\ CancelledAndGoesOn(cancelled_result) ]_vars
    /\ [][ (pc = "exec" /\ LastMessage(calls_made').interrupted) =>
             /\ LastMessage(calls_made').outcome = "ok"
             /\ CancelledAndGoesOn(plan_cancelled) ]_vars

\* a run in which the gate of one call was interrupted, the plan selector of a
\* later call was interrupted, both calls have their tool message, the model
\* was called after each, and the run was then ended at the user-message prompt
C27_Witness ==
    /\ pc = "exited"
    /\ \E g \in Range(gates_asked) : g.interrupted
    /\ \E c \in Range(calls_made) : c.interrupted
    /\ \E k \in 1..Len(conversation) :
          /\ conversation[k] = Message("tool", json_dumps(cancelled_result))
          /\ k < Len(conversation)
    /\ \E k \in 1..Len(conversation) :
          /\ conversation[k] = Message("tool", json_dumps(plan_cancelled))
          /\ k < Len(conversation)
    /\ fault = "none"

\* ------------------------------------------------- tools that run a process
MaxCalls == 2
MaxShells == 2

\* the threads there may be
Threads == {1, 2}

\* the one session id the callers use
SESSION == "s"

\* what a command does in the shell: print one line and end, print two lines
\* and end, or print nothing and never end
CommandKinds == {"echo", "slow", "hang"}
output_lines(kind) == IF kind = "echo" THEN 1 ELSE IF kind = "slow" THEN 2 ELSE 0
command_ends(kind) == kind # "hang"

\* the tools that wait for a child process with subprocess.run
SubprocessTools ==
    {"run_bash_tool", "run_python_tool", "git_tool", "create_venv_tool",
     "install_deps_tool"}

\* the timeout= argument of each subprocess.run call, in seconds: tools.py
\* 146 and 164 (the caller's timeout, 60 by default), tools.py 269,
\* git_operations.py 23; environment.py 148-162 and 265-285 pass none
subprocess_timeout(tool) ==
    IF tool \in {"run_bash_tool", "run_python_tool"} THEN Some(60)
    ELSE IF tool = "git_tool" THEN Some(30)
    ELSE None

\* a registry that forgets a session whose shell has ended
get_session_alive(sessions, id) ==
    IF id \in DOMAIN sessions /\ shells[sessions[id]].alive
    THEN Some(sessions[id]) ELSE None

\* shell_session.py 144-147: get_session(session_id) -> Optional[ShellSession]
get_session(sessions, id) ==
    IF id \in DOMAIN sessions THEN Some(sessions[id]) ELSE None

\* shell_session.py 14-43: a new ShellSession with a running /bin/bash
NewShell(id) ==
    [id |-> id, alive |-> TRUE, lock |-> 0, stdin |-> <<>>,
     running |-> None, stdout |-> <<>>]

\* shell_session.py 119-126: terminate(); what the process had printed stays
\* readable in the pipe
terminate(shell) ==
    [shell EXCEPT !.alive = FALSE, !.running = None, !.stdin = <<>>]

\* a tool call as its thread holds it; `late` is "time.time() - start_time >
\* timeout"; the end marker is made of the time in milliseconds, which differs
\* from call to call
Call(tool, kind) ==
    [tool |-> tool, kind |-> kind, cid |-> ncalls + 1, marker |-> ncalls + 1,
     late |-> FALSE, stdout_lines |-> <<>>, created |-> FALSE, result |-> ""]

\* tools.py 130-139: run_bash_tool with a session_id looks the session up
RunBashTool(c) ==
    /\ c \in DOMAIN callers
    /\ callers[c].pc = "idle"
    /\ ncalls < MaxCalls
    /\ \E kind \in CommandKinds :
         LET session == get_session(_sessions, SESSION)
             call == Call("run_bash_tool", kind)
         IN  /\ session.none => Len(shells) < MaxShells
             /\ callers' = [callers EXCEPT ![c] =
               IF session.none
               THEN call @@ [pc |-> "create", session |-> 0, saw |-> "none"]
               ELSE call @@ [pc |-> "execute", session |-> session.value,
                             saw |-> IF shells[session.value].alive
                                     THEN "live" ELSE "dead"]]
    /\ ncalls' = ncalls + 1
    /\ UNCHANGED <<base_vars, confirm_log, _sessions, shells>>

\* run_bash_tool without a session_id, run_python_tool, git_tool,
\* create_venv_tool and install_deps_tool start a child process with
\* subprocess.run (tools.py 159 and 265, git_operations.py 19, environment.py
\* 148-162 and 265-285)
RunProcessTool(c) ==
    /\ c \in DOMAIN callers
    /\ callers[c].pc = "idle"
    /\ ncalls < MaxCalls
    /\ \E tool \in SubprocessTools, kind \in {"echo", "hang"} :
         callers' = [callers EXCEPT ![c] =
             Call(tool, kind)
             @@ [pc |-> "subprocess", session |-> 0, saw |-> "no session_id"]]
    /\ ncalls' = ncalls + 1
    /\ UNCHANGED <<base_vars, confirm_log, _sessions, shells>>

\* the return of a tool call: the caller has the result dict (its "stdout" is
\* stdout_lines) until it starts its next call
Return(c, result) ==
    callers' = [callers EXCEPT ![c].pc = "idle", ![c].result = result,
                               ![c].kind = "", ![c].late = FALSE]

\* subprocess.run returns when the child has ended
SubprocessEnds(c) ==
    /\ c \in DOMAIN callers
    /\ callers[c].pc = "subprocess"
    /\ command_ends(callers[c].kind)
    /\ Return(c, "ok")
    /\ UNCHANGED <<base_vars, confirm_log, _sessions, shells, ncalls>>

\* subprocess.run(timeout=t) raises TimeoutExpired once t has passed; the tool
\* returns its error dict (tools.py 173-177, 279-283, git_operations.py 30-35)
SubprocessTimeout(c) ==
    /\ c \in DOMAIN callers
    /\ callers[c].pc = "subprocess"
    /\ ~subprocess_timeout(callers[c].tool).none
    /\ callers[c].late
    /\ Return(c, "timeout")
    /\ UNCHANGED <<base_vars, confirm_log, _sessions, shells, ncalls>>

\* shell_session.py 150-172: create_session under the registry lock: an
\* existing session of the id is terminated, a new shell is started and stored
CreateSession(c) ==
    /\ c \in DOMAIN callers
    /\ callers[c].pc = "create"
    /\ Len(shells) < MaxShells
    /\ LET h == Len(shells) + 1
           old == get_session(_sessions, SESSION)
           kept == IF old.none THEN shells
                   ELSE [shells EXCEPT ![old.value] = terminate(@)]
       IN  /\ shells' = Append(kept, NewShell(SESSION))
           /\ _sessions' = (SESSION :> h) @@ _sessions
           /\ callers' = [callers EXCEPT ![c].pc = "execute", ![c].session = h,
                                         ![c].created = TRUE]
    /\ UNCHANGED <<base_vars, confirm_log, ncalls>>

\* a ShellSession whose lock every thread may take at once
can_acquire_always(shell) == TRUE

\* shell_session.py 55: "with self.lock" blocks while another thread holds it
can_acquire(shell) == shell.lock = 0

\* shell_session.py 55: session.execute takes the session's lock
Acquire(c) ==
    /\ c \in DOMAIN callers
    /\ callers[c].pc = "execute"
    /\ can_acquire(shells[callers[c].session])
    /\ shells' = [shells EXCEPT ![callers[c].session].lock = c]
    /\ callers' = [callers EXCEPT ![c].pc = "poll"]
    /\ UNCHANGED <<base_vars, confirm_log, _sessions, ncalls>>

\* leaving the "with self.lock" block
Unlocked(c) == [shells EXCEPT ![callers[c].session].lock = 0]

\* shell_session.py 56-64: a shell whose process has ended gives the
\* terminated-session error; otherwise the end marker is made from the time
Poll(c) ==
    /\ c \in DOMAIN callers
    /\ callers[c].pc = "poll"
    /\ IF ~shells[callers[c].session].alive
       THEN /\ Return(c, "Shell session has terminated")
            /\ shells' = Unlocked(c)
       ELSE /\ callers' = [callers EXCEPT ![c].pc = "write"]
            /\ UNCHANGED shells
    /\ UNCHANGED <<base_vars, confirm_log, _sessions, ncalls>>

\* shell_session.py 66-76: the command and "echo marker $?" are written to the
\* shell's stdin; writing to an ended process raises, and 109-113 returns the
\* exception as an error
Write(c) ==
    /\ c \in DOMAIN callers
    /\ callers[c].pc = "write"
    /\ LET h == callers[c].session
       IN  IF ~shells[h].alive
           THEN /\ Return(c, "exception")
                /\ shells' = Unlocked(c)
           ELSE /\ shells' = [shells EXCEPT ![h].stdin = Append(@,
                        [kind |-> callers[c].kind, marker |-> callers[c].marker,
                         cid |-> callers[c].cid])]
                /\ callers' = [callers EXCEPT ![c].pc = "loop"]
    /\ UNCHANGED <<base_vars, confirm_log, _sessions, ncalls>>

\* shell_session.py 78-86: the top of the read loop compares the time passed
\* with the timeout
CheckTimeout(c) ==
    /\ c \in DOMAIN callers
    /\ callers[c].pc = "loop"
    /\ IF callers[c].late
       THEN /\ Return(c, "timeout")
            /\ shells' = Unlocked(c)
       ELSE /\ callers' = [callers EXCEPT ![c].pc = "readline"]
            /\ UNCHANGED shells
    /\ UNCHANGED <<base_vars, confirm_log, _sessions, ncalls>>

\* shell_session.py 88-101: readline() waits for a line of the shell's stdout
\* (it returns the empty string at once when the process has ended); the line
\* that starts with this call's marker ends the loop, any other line is output
Readline(c) ==
    /\ c \in DOMAIN callers
    /\ callers[c].pc = "readline"
    /\ LET h == callers[c].session
       IN  IF shells[h].stdout # <<>>
           THEN LET line == Head(shells[h].stdout)
                    rest == [shells EXCEPT ![h].stdout = Tail(@)]
                IN  IF line.text = "marker" /\ line.marker = callers[c].marker
                    THEN /\ Return(c, "ok")
                         /\ shells' = [rest EXCEPT ![h].lock = 0]
                    ELSE /\ callers' = [callers EXCEPT ![c].pc = "loop",
                                 ![c].stdout_lines = Append(@, line)]
                         /\ shells' = rest
           ELSE /\ ~shells[h].alive
                /\ callers' = [callers EXCEPT ![c].pc = "loop"]
                /\ UNCHANGED shells
    /\ UNCHANGED <<base_vars, confirm_log, _sessions, ncalls>>

\* bash reads the next command from its stdin
ShellTake(h) ==
    /\ h \in DOMAIN shells
    /\ shells[h].alive
    /\ shells[h].running = None
    /\ shells[h].stdin # <<>>
    /\ shells' = [shells EXCEPT
                    ![h].running = Some(Head(shells[h].stdin)
                                        @@ [left |-> output_lines(Head(shells[h].stdin).kind)]),
                    ![h].stdin = Tail(@)]
    /\ UNCHANGED <<base_vars, confirm_log, _sessions, callers, ncalls>>

\* the running command prints a line; when it has ended bash runs
\* "echo marker $?"
ShellEmit(h) ==
    /\ h \in DOMAIN shells
    /\ shells[h].alive
    /\ ~shells[h].running.none
    /\ LET cmd == shells[h].running.value
       IN  IF cmd.left > 0
           THEN shells' = [shells EXCEPT
                    ![h].stdout = Append(@, [text |-> "out", marker |-> cmd.marker,
                                             cid |-> cmd.cid]),
                    ![h].running = Some([cmd EXCEPT !.left = @ - 1])]
           ELSE /\ command_ends(cmd.kind)
                /\ shells' = [shells EXCEPT
                    ![h].stdout = Append(@, [text |-> "marker", marker |-> cmd.marker,
                                             cid |-> cmd.cid]),
                    ![h].running = None]
    /\ UNCHANGED <<base_vars, confirm_log, _sessions, callers, ncalls>>

\* the shell process ends on its own (exit, a signal)
ShellDies(h) ==
    /\ h \in DOMAIN shells
    /\ shells[h].alive
    /\ shells' = [shells EXCEPT ![h] = terminate(@)]
    /\ UNCHANGED <<base_vars, confirm_log, _sessions, callers, ncalls>>

Without1(f, k) == [x \in DOMAIN f \ {k} |-> f[x]]

\* shell_session.py 181-196: terminate_session(session_id)
TerminateSession ==
    /\ SESSION \in DOMAIN _sessions
    /\ shells' = [shells EXCEPT ![_sessions[SESSION]] = terminate(@)]
    /\ _sessions' = Without1(_sessions, SESSION)
    /\ UNCHANGED <<base_vars, confirm_log, callers, ncalls>>

\* shell_session.py 199-210: terminate_all_sessions()
TerminateAllSessions ==
    /\ DOMAIN _sessions # {}
    /\ shells' = [h \in DOMAIN shells |->
                    IF \E id \in DOMAIN _sessions : _sessions[id] = h
                    THEN terminate(shells[h]) ELSE shells[h]]
    /\ _sessions' = <<>>
    /\ UNCHANGED <<base_vars, confirm_log, callers, ncalls>>

\* shell_session.py 213-223: cleanup_dead_sessions()
CleanupDeadSessions ==
    /\ \E id \in DOMAIN _sessions : ~shells[_sessions[id]].alive
    /\ _sessions' = [id \in { x \in DOMAIN _sessions : shells[_sessions[x]].alive }
                        |-> _sessions[id]]
    /\ UNCHANGED <<base_vars, confirm_log, shells, callers, ncalls>>

\* time passes: the timeout of a call that waits for its process is over
Expire(c) ==
    /\ c \in DOMAIN callers
    /\ callers[c].pc \in {"loop", "readline", "subprocess"}
    /\ ~callers[c].late
    /\ callers' = [callers EXCEPT ![c].late = TRUE]
    /\ UNCHANGED <<base_vars, confirm_log, _sessions, shells, ncalls>>

\* the steps of a thread inside run_bash_tool with a session_id
SessionStep(c) ==
    \/ RunBashTool(c)
    \/ CreateSession(c)
    \/ Acquire(c)
    \/ Poll(c)
    \/ Write(c)
    \/ CheckTimeout(c)
    \/ Readline(c)

\* the steps of a thread inside a tool that uses subprocess.run
ProcessStep(c) ==
    \/ RunProcessTool(c)
    \/ SubprocessEnds(c)
    \/ SubprocessTimeout(c)

NextSessions ==
    \/ \E c \in Threads : SessionStep(c)
    \/ \E h \in 1..MaxShells : ShellTake(h)
    \/ \E h \in 1..MaxShells : ShellEmit(h)
    \/ \E h \in 1..MaxShells : ShellDies(h)
    \/ TerminateSession
    \/ TerminateAllSessions
    \/ CleanupDeadSessions
    \/ \E c \in Threads : Expire(c)

NextShell ==
    \/ NextSessions
    \/ \E c \in Threads : ProcessStep(c)

\* two threads call the tools at the same time
InitShell == InitLoop({}, <<>>, None) /\ InitShells(Threads)
SpecShell == InitShell /\ [][NextSessions]_vars

\* the tools are called one after the other, as the agent loops call them
InitShellSeq == InitLoop({}, <<>>, None) /\ InitShells({1})
SpecShellSeq == InitShellSeq /\ [][NextShell]_vars

\* ------------------------------------------------- one command at a time
\* the thread is inside "with self.lock" of the session it holds
InExecute(c) == callers[c].pc \in {"poll", "write", "loop", "readline"}

\* the thread has written its command to the shell and has not returned
InFlight(c) == callers[c].pc \in {"loop", "readline"}

LiveShells(id) == { h \in DOMAIN shells : shells[h].id = id /\ shells[h].alive }

Returned(c) ==
    /\ callers[c].pc = "idle"
    /\ callers[c].result \in {"ok", "timeout"}

\* C29: the stdout of the result that ShellSession.execute returns for a
\* command holds only lines that this command printed: no line that an
\* earlier command of the session printed, and no end marker.
C29_OnlyOwnOutput ==
    \A c \in DOMAIN callers :
        Returned(c) =>
            \A k \in DOMAIN callers[c].stdout_lines :
                /\ callers[c].stdout_lines[k].cid = callers[c].cid
                /\ callers[c].stdout_lines[k].text = "out"

\* ------------------------------------- a session whose shell has ended
\* the id is registered and the shell process of its session has ended
RegisteredDead(id) ==
    /\ id \in DOMAIN _sessions
    /\ ~shells[_sessions[id]].alive

\* thread c enters run_bash_tool with the session id in this step
CallBegins(c) ==
    /\ callers[c].pc = "idle"
    /\ callers'[c].pc \in {"create", "execute"}

\* C30: while a session id is registered with a shell process that has
\* ended, a run_bash_tool call with the id gets the ended session, starts no
\* shell and returns "Shell session has terminated"; a shell is started only
\* by a call that found the id not registered, and the ended session leaves
\* the registry only by terminate_session, terminate_all_sessions or
\* cleanup_dead_sessions.
C30_DeadSessionStaysDead ==
    /\ [](\A c \in DOMAIN callers :
            /\ callers[c].saw = "dead" =>
                   /\ ~callers[c].created
                   /\ ~shells[callers[c].session].alive
                   /\ callers[c].pc \in {"execute", "poll", "idle"}
                   /\ callers[c].pc = "idle" =>
                          callers[c].result = "Shell session has terminated"
            /\ callers[c].created => callers[c].saw = "none")
    /\ [][\A c \in DOMAIN callers :
            (CallBegins(c) /\ RegisteredDead(SESSION)) =>
                /\ callers'[c].saw = "dead"
                /\ callers'[c].session = _sessions[SESSION]]_vars
    /\ [][Len(shells') > Len(shells) => SESSION \notin DOMAIN _sessions]_vars
    /\ [][(RegisteredDead(SESSION) /\ _sessions' # _sessions) =>
            /\ SESSION \notin DOMAIN _sessions'
            /\ \/ TerminateSession
               \/ TerminateAllSessions
               \/ CleanupDeadSessions]_vars

\* the shell of the registered session ended, and the call made after that
\* has returned the error; no second shell exists
C30_Witness ==
    /\ RegisteredDead(SESSION)
    /\ Len(shells) = 1
    /\ callers[1].pc = "idle"
    /\ callers[1].cid = 2
    /\ callers[1].saw = "dead"
    /\ callers[1].result = "Shell session has terminated"

\* ------------------------------------------------ every call returns
\* what a thread inside a tool call does next without waiting for anybody
CallProgress(c) ==
    \/ CreateSession(c)
    \/ Acquire(c)
    \/ Poll(c)
    \/ Write(c)
    \/ CheckTimeout(c)
    \/ Readline(c)
    \/ SubprocessEnds(c)
    \/ SubprocessTimeout(c)

\* a thread that can go on does go on, bash reads its input and a command
\* that has something to print prints it, and time passes; nothing makes a
\* shell die, a session be terminated or a new call begin
ShellFairness ==
    /\ \A c \in Threads : WF_vars(CallProgress(c))
    /\ \A c \in Threads : WF_vars(Expire(c))
    /\ \A h \in 1..MaxShells : WF_vars(ShellTake(h))
    /\ \A h \in 1..MaxShells : WF_vars(ShellEmit(h))

SpecShellFair == InitShellSeq /\ [][NextShell]_vars /\ ShellFairness

\* C25: every tool call that runs an external process returns in the end,
\* also when the process never ends and prints nothing.
C25_EveryCallReturns ==
    \A c \in {1} : (callers[c].pc # "idle") ~> (callers[c].pc = "idle")

\* the part of C25 about the tools that use subprocess.run
C25_SubprocessReturns ==
    \A c \in {1} : (callers[c].pc = "subprocess") ~> (callers[c].pc = "idle")

\* a tool that passes timeout= to subprocess.run returns
TimedSubprocessReturns ==
    \A c \in {1} :
        (callers[c].pc = "subprocess" /\ ~subprocess_timeout(callers[c].tool).none)
            ~> (callers[c].pc = "idle")

\* the part of C25 about a command of a shell session
C25_SessionCommandReturns ==
    \A c \in {1} : (callers[c].pc \in {"loop", "readline"}) ~> (callers[c].pc = "idle")
====
